---------------------------- MODULE Spec2Model ----------------------------
(***************************************************************************)
(* Model of the network speed-test client (src/client.py) and server       *)
(* (src/server.py): offer discovery, the TCP bulk transfer, the UDP        *)
(* segmented transfer and the thread fan-out/fan-in of perform_speed_test. *)
(*                                                                         *)
(* The module holds several specifications over one set of variables; each *)
(* runs one part of the program against its environment (the network, the  *)
(* peer, the operator) and leaves the other parts' variables untouched:    *)
(*   SpecTcp         tcp_test against handle_client_tcp over one stream    *)
(*   SpecTcpHandler  handle_client_tcp against an arbitrary TCP peer       *)
(*   SpecUdpClient   udp_test against arbitrary arriving datagrams         *)
(*   SpecUdpServer   handle_client_udp against arbitrary requests          *)
(*   SpecDiscover    udp_discover against arbitrary broadcast datagrams    *)
(*   SpecOrch        perform_speed_test and its transfer threads           *)
(*   SpecFrames      the three receivers against frames of every type      *)
(*   SpecServer      the beacon, the two accept loops and their handlers   *)
(*   SpecStop        udp_discover and the server loops, fairly scheduled   *)
(*   SpecUdpLoss     udp_test with duplicated, reordered, missing segments *)
(*   SpecUdpHonest   udp_test against frames that declare their true total *)
(*   SpecCodec       packing and unpacking of the three wire formats       *)
(*   SpecIsolation   transfer threads, handlers and loops side by side     *)
(*   SpecUdpLive     SpecUdpClient with a udp_test that keeps running      *)
(***************************************************************************)
EXTENDS Integers, Sequences, FiniteSets, TLC

(***************************************************************************)
(* Program constants                                                       *)
(***************************************************************************)
\* chunk_size = 8192 (client.py:99, server.py:73)
chunk_size == 8192
\* retries = 3 (client.py:87 for tcp_test, client.py:131 for udp_test)
RETRIES == 3
\* conn.recv(1024): the bounded initial read of handle_client_tcp (server.py:60)
REQUEST_RECV_SIZE == 1024

\* OFFER_MAGIC_COOKIE = 0xabcddcba (client.py:10, server.py:10).  A 32-bit
\* field is kept as its four bytes in network order: two such fields are
\* equal as integers exactly when their bytes are equal.
OFFER_MAGIC_COOKIE == <<171, 205, 220, 186>>
\* OFFER_MESSAGE_TYPE = 0x2 (client.py:11, server.py:11)
OFFER_MESSAGE_TYPE == 2
\* REQUEST_MESSAGE_TYPE = 0x3 (client.py:12, server.py:12)
REQUEST_MESSAGE_TYPE == 3
\* PAYLOAD_MESSAGE_TYPE = 0x4 (client.py:13, server.py:13)
PAYLOAD_MESSAGE_TYPE == 4
\* max_no_data = 5 (client.py:155)
max_no_data == 5
\* the size of a UDP segment and of a Payload datagram: file_size // 1024
\* (client.py:194, server.py:136) and b'A' * (1024 - len(payload))
\* (server.py:152)
SEGMENT_SIZE == 1024
\* udp_socket.recvfrom(2048) (client.py:159)
UDP_RECV_SIZE == 2048
\* udp_socket.recvfrom(1024) in udp_discover (client.py:47)
DISCOVER_RECV_SIZE == 1024
\* UDP_SERVER_PORT = 20001 and TCP_SERVER_PORT = 20002 (server.py:16-17)
UDP_SERVER_PORT == 20001
TCP_SERVER_PORT == 20002

(***************************************************************************)
(* Bounds of the model                                                     *)
(***************************************************************************)
\* how many times per connection the network hands tcp_test fewer bytes than
\* are in flight (a short read); every read may still be a full one
MaxShortReads == 1

\* datagrams one udp_test attempt receives
MaxDatagrams == 3
\* the largest total_segments and sequence fields of the Payload datagrams
\* the network delivers to udp_test
MaxTotal == 2
MaxSeq == 1
\* the clock stops at MaxClock tenths of a second
MaxClock == 1
\* datagrams udp_discover receives
MaxOffers == 3
\* the largest tcp_connections and udp_connections perform_speed_test is
\* called with
MaxConnections == 1
\* in the run of udp_test with 10 expected segments: the datagrams one attempt
\* receives and the largest sequence number among them
MaxLossDatagrams == 7
MaxLossSeq == 7
\* in the run of udp_test against handle_client_udp's own datagrams: the
\* datagrams one attempt receives and the tenth of a second the clock stops at
MaxHonestDatagrams == 4
MaxHonestClock == 3
\* progress updates one transfer thread makes
MaxUpdates == 1
\* handler threads tcp_server and udp_server start between them
MaxHandlers == 2
\* Offers counted by the model; udp_offer_broadcast sends on beyond them
MaxBeacons == 1

\* file sizes tcp_test is run with (main() only lets file_size >= 1 through)
FileSizes == {1, 5000, 8193, 16385}

(***************************************************************************)
(* Bytes and strings.  A byte string is a sequence of 0..255; a str is a   *)
(* sequence of code points.                                                *)
(***************************************************************************)
Min(a, b) == IF a < b THEN a ELSE b

\* bytes.decode(errors='ignore') for byte strings made of ASCII bytes and
\* bytes >= 0x80 that start no valid UTF-8 sequence: the ASCII bytes decode
\* to themselves, the undecodable ones are dropped.
decode_ignore(raw) == SelectSeq(raw, LAMBDA b : b < 128)

\* str.isspace() on the ASCII range: \t \n \v \f \r, 0x1c..0x1f and space
IsSpace(c) == c \in (9..13) \cup (28..32)

RECURSIVE lstrip(_)
lstrip(s) == IF s # <<>> /\ IsSpace(Head(s)) THEN lstrip(Tail(s)) ELSE s

RECURSIVE rstrip(_)
rstrip(s) ==
    IF s # <<>> /\ IsSpace(s[Len(s)]) THEN rstrip(SubSeq(s, 1, Len(s) - 1)) ELSE s

\* str.strip()
str_strip(s) == rstrip(lstrip(s))

\* str.isdigit() on the ASCII range: non-empty and every character in '0'..'9'
str_isdigit(s) == s # <<>> /\ \A i \in 1..Len(s) : s[i] \in 48..57

\* int(s) for a string of ASCII digits
RECURSIVE str_int(_)
str_int(s) ==
    IF s = <<>> THEN 0
    ELSE 10 * str_int(SubSeq(s, 1, Len(s) - 1)) + (s[Len(s)] - 48)

\* str(n).encode() for n >= 0
RECURSIVE int_str(_)
int_str(n) == IF n < 10 THEN <<48 + n>> ELSE int_str(n \div 10) \o <<48 + (n % 10)>>

\* f"{file_size}\n".encode()  (client.py:97)
request_line(n) == int_str(n) \o <<10>>

(***************************************************************************)
(* struct.pack / struct.unpack in network byte order                       *)
(***************************************************************************)
\* n as width bytes, most significant first
RECURSIVE be_bytes(_, _)
be_bytes(width, n) ==
    IF width = 0 THEN <<>> ELSE be_bytes(width - 1, n \div 256) \o <<n % 256>>

\* the integer a byte string stands for, most significant byte first
RECURSIVE be_int(_)
be_int(b) ==
    IF b = <<>> THEN 0 ELSE 256 * be_int(SubSeq(b, 1, Len(b) - 1)) + b[Len(b)]

\* struct.calcsize('!IBQQ') (client.py:162)
header_size == 4 + 1 + 8 + 8

\* struct.pack('!IBQQ', cookie, msg_type, q1, q2) (client.py:141, server.py:147)
struct_pack_IBQQ(cookie, msg_type, q1, q2) ==
    cookie \o be_bytes(1, msg_type) \o be_bytes(8, q1) \o be_bytes(8, q2)

\* struct.unpack('!IBQQ', data) for data of 21 bytes (client.py:166,
\* server.py:131); any other length raises struct.error
struct_unpack_IBQQ(data) ==
    [cookie   |-> SubSeq(data, 1, 4),
     msg_type |-> be_int(SubSeq(data, 5, 5)),
     q1       |-> be_int(SubSeq(data, 6, 13)),
     q2       |-> be_int(SubSeq(data, 14, 21))]

\* struct.calcsize('!IBHH'), the only length struct.unpack('!IBHH', data)
\* accepts (client.py:58)
offer_size == 4 + 1 + 2 + 2

\* struct.pack('!IBHH', cookie, msg_type, h1, h2) (server.py:40)
struct_pack_IBHH(cookie, msg_type, h1, h2) ==
    cookie \o be_bytes(1, msg_type) \o be_bytes(2, h1) \o be_bytes(2, h2)

\* struct.unpack('!IBHH', data) for data of 9 bytes (client.py:58); any other
\* length raises struct.error
struct_unpack_IBHH_mutant(data) ==
    [cookie   |-> SubSeq(data, 1, 4),
     msg_type |-> be_int(SubSeq(data, 5, 5)),
     h1       |-> be_int(SubSeq(data, 8, 9)),
     h2       |-> be_int(SubSeq(data, 6, 7))]
struct_unpack_IBHH(data) ==
    [cookie   |-> SubSeq(data, 1, 4),
     msg_type |-> be_int(SubSeq(data, 5, 5)),
     h1       |-> be_int(SubSeq(data, 6, 7)),
     h2       |-> be_int(SubSeq(data, 8, 9))]

\* offer_message of udp_offer_broadcast (server.py:40-44)
offer_message ==
    struct_pack_IBHH(OFFER_MAGIC_COOKIE, OFFER_MESSAGE_TYPE, UDP_SERVER_PORT,
                     TCP_SERVER_PORT)

\* b'A' * n
filler(n) == [i \in 1..n |-> 65]

\* the Payload datagram of one segment: the header padded with filler to
\* 1024 bytes (server.py:147-152)
udp_payload(total, segment) ==
    LET payload == struct_pack_IBQQ(OFFER_MAGIC_COOKIE, PAYLOAD_MESSAGE_TYPE,
                                    total, segment)
    IN payload \o filler(SEGMENT_SIZE - Len(payload))

(***************************************************************************)
(* State                                                                   *)
(***************************************************************************)
VARIABLES
    \* ---- tcp_test (client.py:86-125), one transfer thread
    file_size,              \* the requested size, an argument of perform_speed_test
    c_pc,                   \* where tcp_test is
    retries,                \* retries (client.py:87)
    bytes_received,         \* bytes_received (client.py:91)
    tcp_socket,             \* the socket of the running attempt (0: none yet)
    closed_sockets,         \* sockets tcp_test has closed (client.py:125)
    sleeps,                 \* number of time.sleep(1) backoffs taken (client.py:122)
    outcomes,               \* how each finished attempt ended, oldest first
    progress_dict,          \* progress_dict[t_id] (client.py:110)
    short_reads,            \* short reads the network has made on this connection
    client_shutdown_event,  \* client_shutdown_event (client.py:25)
    \* ---- the TCP connection of the running attempt
    c2s,                    \* bytes sent by the client, not yet read by the server
    c2s_closed,             \* the client's end is closed
    s2c,                    \* number of filler bytes sent by the server, not yet read
    s2c_closed,             \* the server's end is closed (conn.close(), server.py:86)
    \* ---- handle_client_tcp (server.py:54-86) for that connection
    s_pc,                   \* where the handler is
    raw_data,               \* raw_data (server.py:60)
    s_file_size,            \* file_size (server.py:70)
    bytes_sent,             \* bytes_sent (server.py:74)
    max_chunk,              \* the largest chunk handed to conn.sendall so far
    server_shutdown_event,  \* server_shutdown_event (server.py:20)
    \* ---- udp_test (client.py:127-217), one transfer thread
    u_pc,                   \* where udp_test is
    u_retries,              \* retries (client.py:131)
    request_msg,            \* request_msg, the Request datagram sent (client.py:141)
    start_time,             \* start_time (client.py:147)
    packets,                \* the keys of packets (client.py:150)
    arrival_times,          \* arrival_times (client.py:151)
    received_packets,       \* received_packets (client.py:152)
    last_update_time,       \* last_update_time (client.py:153)
    no_data_count,          \* no_data_count (client.py:154)
    lost_packets,           \* lost_packets (client.py:195)
    jitter,                 \* jitter (client.py:197-200) as <<numerator, denominator>>
    now,                    \* time.time(), in tenths of a second
    u_attempts,             \* sockets udp_test has created (client.py:133)
    rx_count,               \* datagrams recvfrom has returned in this attempt
    rx_valid,               \* those of them that were valid Payload datagrams
    rx_last,                \* the cookie and type bytes of the latest of them
    quiet_run,              \* recvfrom timeouts since the latest of them
    first_total,            \* total_segments of the attempt's first valid payload
    valid_seqs,             \* sequence numbers of the valid payloads received
    \* ---- handle_client_udp (server.py:120-170) for one datagram
    h_pc,                   \* where udp_server and the handler are
    h_data,                 \* data, the datagram udp_server received
    h_addr,                 \* addr, its sender
    total_segments,         \* total_segments (server.py:136)
    sent_segments,          \* sent_segments (server.py:137)
    segment,                \* segment, the loop variable (server.py:141)
    h_sent,                 \* the datagrams client_socket.sendto has sent
    h_failed,               \* the segments whose sendto raised
    \* ---- udp_discover (client.py:31-69)
    d_pc,                   \* where udp_discover is
    d_socket,               \* udp_socket: "bound" or "closed"
    d_result,               \* the value returned
    d_history,              \* the datagrams recvfrom has returned, oldest first
    d_late_waits,           \* recvfrom calls that ended after the stop event was set
    \* ---- perform_speed_test (client.py:82-239)
    o_pc,                   \* where the calling thread is
    tcp_connections,        \* tcp_connections, an argument
    udp_connections,        \* udp_connections, an argument
    o_i,                    \* i of the launch loops, then the index of the join loop
    threads,                \* threads (client.py:219)
    w_pc,                   \* where each transfer thread is
    w_retries,              \* retries of each transfer thread
    progress_lock,          \* progress_lock: the thread that holds it, <<>> if none
    last_access,            \* the latest access to progress_dict: by whom and how
    \* ---- the server's three loops (server.py:32-51, 89-117, 172-199)
    b_pc,                   \* where udp_offer_broadcast is
    b_socket,               \* its udp_socket: "open" or "closed"
    b_offers,               \* Offers udp_offer_broadcast has sent
    b_failures,             \* sendto calls of udp_offer_broadcast that raised
    ts_pc,                  \* where tcp_server is
    ts_socket,              \* server_socket: "listening" or "closed"
    us_pc,                  \* where udp_server is
    us_socket,              \* its udp_socket: "bound" or "closed"
    handlers,               \* the handler threads started, oldest first
    late_waits,             \* per loop, the waits that ended after the stop event was set
    \* ---- one message on its way from struct.pack to struct.unpack
    k_pc,                   \* "pack", "unpack" or "done"
    k_msg,                  \* the kind of message and its two fields
    k_wire,                 \* the bytes struct.pack made of it
    k_out,                  \* what struct.unpack made of the bytes
    \* ---- environment
    io_fault                \* an I/O error or timeout has been injected

tcpOnlyVars == <<c_pc, retries, bytes_received, tcp_socket, closed_sockets,
                 sleeps, outcomes, short_reads>>
tcpClientVars == <<file_size, progress_dict, client_shutdown_event, tcpOnlyVars>>
connVars == <<c2s, c2s_closed, s2c, s2c_closed>>
tcpServerVars == <<s_pc, raw_data, s_file_size, bytes_sent, max_chunk,
                   server_shutdown_event>>

udpClientVars == <<u_pc, u_retries, request_msg, start_time, packets,
                   arrival_times, received_packets, last_update_time,
                   no_data_count, lost_packets, jitter, now, u_attempts,
                   rx_count, rx_valid, rx_last, quiet_run, first_total,
                   valid_seqs>>

udpServerVars == <<h_pc, h_data, h_addr, total_segments, sent_segments,
                   segment, h_sent, h_failed>>
discVars == <<d_pc, d_socket, d_result, d_history, d_late_waits>>
lockVars == <<progress_lock, last_access>>
orchVars == <<o_pc, tcp_connections, udp_connections, o_i, threads, w_pc,
              w_retries, lockVars>>
loopVars == <<b_pc, b_socket, b_offers, b_failures, ts_pc, ts_socket, us_pc,
              us_socket, handlers, late_waits>>
codecVars == <<k_pc, k_msg, k_wire, k_out>>

\* the variables of the other parts of the program
nonTcpVars == <<udpClientVars, udpServerVars, discVars, orchVars, loopVars, codecVars>>
nonUdpClientVars == <<tcpOnlyVars, connVars, tcpServerVars, udpServerVars,
                      discVars, orchVars, loopVars, codecVars>>
nonUdpServerVars == <<tcpClientVars, connVars, s_pc, raw_data, s_file_size,
                      bytes_sent, max_chunk, udpClientVars, discVars, orchVars,
                      loopVars, codecVars>>
nonDiscVars == <<file_size, progress_dict, tcpOnlyVars, connVars,
                 tcpServerVars, udpClientVars, udpServerVars, orchVars,
                 loopVars, codecVars>>
nonOrchVars == <<file_size, tcpOnlyVars, connVars, tcpServerVars,
                 udpClientVars, udpServerVars, discVars, loopVars, codecVars>>

vars == <<tcpClientVars, connVars, tcpServerVars, io_fault, nonTcpVars>>

\* the count n of waits that ended after the stop event was set, after one
\* more wait has ended
late(n, event) == IF event THEN n + 1 ELSE n

\* t_id = f"T{i + 1}" and f"U{i + 1}" (client.py:221, 229), as <<letter, number>>
t_id(kind, i) == <<kind, i + 1>>

\* the identifiers perform_speed_test can give its threads
AllThreadIds ==
    {t_id(kind, i) : kind \in {"T", "U"}, i \in 0..(MaxConnections - 1)}

\* the transfer identifier of the one tcp_test thread of SpecTcp
T1 == t_id("T", 0)

(***************************************************************************)
(* handle_client_tcp (server.py:54-86)                                     *)
(***************************************************************************)
\* finally: conn.close() (server.py:85-86)
tcp_conn_close ==
    /\ s_pc' = "closed"
    /\ s2c_closed' = TRUE

\* file_size_str = raw_data.decode(errors='ignore').strip() (server.py:65)
file_size_str(raw) == str_strip(decode_ignore(raw))

\* chunk = min(chunk_size, remaining) (server.py:76-77)
tcp_chunk_mutant(size, sent) == chunk_size
tcp_chunk(size, sent) == Min(chunk_size, size - sent)

\* tcp_server's accept and the start of the handler thread (server.py:104-112)
tcp_server_accept ==
    /\ s_pc = "accept"
    /\ s_pc' = "recv"
    /\ UNCHANGED <<raw_data, s_file_size, bytes_sent, max_chunk,
                   server_shutdown_event, tcpClientVars, connVars, io_fault, nonTcpVars>>

\* raw_data = conn.recv(1024) returned data; the request is parsed
\* (server.py:60-74).  recv returns whatever prefix of the stream has arrived.
handle_client_tcp_recv ==
    /\ s_pc = "recv"
    /\ c2s # <<>>
    /\ \E k \in 1..Min(REQUEST_RECV_SIZE, Len(c2s)) :
         LET raw == SubSeq(c2s, 1, k)
             str == file_size_str(raw)
         IN /\ raw_data' = raw
            /\ c2s' = SubSeq(c2s, k + 1, Len(c2s))
            /\ IF str_isdigit(str)
               THEN /\ s_file_size' = str_int(str)
                    /\ bytes_sent' = 0
                    /\ s_pc' = "send"
                    /\ UNCHANGED s2c_closed
               ELSE /\ tcp_conn_close
                    /\ UNCHANGED <<s_file_size, bytes_sent>>
    /\ UNCHANGED <<max_chunk, server_shutdown_event, tcpClientVars,
                   c2s_closed, s2c, io_fault, nonTcpVars>>

\* conn.recv(1024) returned b"": the peer closed without sending (server.py:61-63)
handle_client_tcp_recv_eof ==
    /\ s_pc = "recv"
    /\ c2s = <<>>
    /\ c2s_closed
    /\ raw_data' = <<>>
    /\ tcp_conn_close
    /\ UNCHANGED <<s_file_size, bytes_sent, max_chunk, server_shutdown_event,
                   tcpClientVars, c2s, c2s_closed, s2c, io_fault, nonTcpVars>>

\* conn.recv(1024) raised (the 30 s timeout, a reset): except, finally
\* (server.py:83-86)
handle_client_tcp_recv_error ==
    /\ s_pc = "recv"
    /\ io_fault' = TRUE
    /\ tcp_conn_close
    /\ UNCHANGED <<raw_data, s_file_size, bytes_sent, max_chunk,
                   server_shutdown_event, tcpClientVars, c2s, c2s_closed, s2c, nonTcpVars>>

\* one iteration of the send loop (server.py:75-79)
handle_client_tcp_send ==
    /\ s_pc = "send"
    /\ bytes_sent < s_file_size
    /\ ~server_shutdown_event
    /\ LET chunk == tcp_chunk(s_file_size, bytes_sent)
       IN /\ s2c' = s2c + chunk
          /\ bytes_sent' = bytes_sent + chunk
          /\ max_chunk' = IF chunk > max_chunk THEN chunk ELSE max_chunk
    /\ UNCHANGED <<s_pc, raw_data, s_file_size, server_shutdown_event,
                   tcpClientVars, c2s, c2s_closed, s2c_closed, io_fault, nonTcpVars>>

\* conn.sendall raised: except, finally (server.py:78, 83-86)
handle_client_tcp_send_error ==
    /\ s_pc = "send"
    /\ bytes_sent < s_file_size
    /\ ~server_shutdown_event
    /\ io_fault' = TRUE
    /\ tcp_conn_close
    /\ UNCHANGED <<raw_data, s_file_size, bytes_sent, max_chunk,
                   server_shutdown_event, tcpClientVars, c2s, c2s_closed, s2c, nonTcpVars>>

\* the send loop's condition is false: "Finished sending", finally
\* (server.py:75, 81, 85-86)
handle_client_tcp_finish ==
    /\ s_pc = "send"
    /\ ~(bytes_sent < s_file_size /\ ~server_shutdown_event)
    /\ tcp_conn_close
    /\ UNCHANGED <<raw_data, s_file_size, bytes_sent, max_chunk,
                   server_shutdown_event, tcpClientVars, c2s, c2s_closed, s2c,
                   io_fault, nonTcpVars>>

\* some server thread of the specification is still at work
ServerBusy ==
    \/ s_pc \in {"accept", "recv", "send"}
    \/ h_pc \in {"recvfrom", "start", "loop"}
    \/ b_pc \in {"while", "sendto", "sleep"}
    \/ ts_pc \in {"bind", "while", "accept"}
    \/ us_pc \in {"bind", "while", "recvfrom"}

\* server_shutdown_event.set() (server.py:231)
server_shutdown ==
    /\ ~server_shutdown_event
    /\ ServerBusy
    /\ server_shutdown_event' = TRUE
    /\ UNCHANGED <<s_pc, raw_data, s_file_size, bytes_sent, max_chunk,
                   tcpClientVars, connVars, io_fault, nonTcpVars>>

(***************************************************************************)
(* tcp_test (client.py:86-125)                                             *)
(***************************************************************************)
\* the attempt is in progress: its socket exists and is not yet closed
InAttempt == c_pc \in {"connect", "sendall", "recv"}

\* except Exception: retries -= 1; sleep(1) if retries remain; finally close
\* (client.py:119-125)
tcp_test_except_mutant(kind) ==
    /\ retries' = retries - 1
    /\ sleeps' = sleeps
    /\ outcomes' = Append(outcomes, kind)
    /\ closed_sockets' = closed_sockets \cup {tcp_socket}
    /\ c2s_closed' = TRUE
    /\ c_pc' = "while"
tcp_test_except(kind) ==
    /\ retries' = retries - 1
    /\ sleeps' = IF retries - 1 > 0 THEN sleeps + 1 ELSE sleeps
    /\ outcomes' = Append(outcomes, kind)
    /\ closed_sockets' = closed_sockets \cup {tcp_socket}
    /\ c2s_closed' = TRUE
    /\ c_pc' = "while"

\* the receive loop is over: report and return; finally close (client.py:113-125)
tcp_test_return ==
    /\ c_pc' = "success"
    /\ outcomes' = Append(outcomes, "success")
    /\ closed_sockets' = closed_sockets \cup {tcp_socket}
    /\ c2s_closed' = TRUE
    /\ UNCHANGED <<retries, sleeps>>

\* if not chunk: raise ConnectionError while short of file_size, else break
\* (client.py:102-105)
tcp_test_empty_chunk_mutant == tcp_test_return
tcp_test_empty_chunk ==
    IF bytes_received < file_size
    THEN tcp_test_except("premature_close")
    ELSE tcp_test_return

\* the while condition, then a new socket and bytes_received = 0
\* (client.py:88-92); falling out of the loop returns None
tcp_test_while ==
    /\ c_pc = "while"
    /\ IF retries > 0 /\ ~client_shutdown_event
       THEN /\ tcp_socket' = tcp_socket + 1
            /\ bytes_received' = 0
            /\ c_pc' = "connect"
       ELSE /\ c_pc' = IF retries > 0 THEN "stopped" ELSE "gave_up"
            /\ UNCHANGED <<tcp_socket, bytes_received>>
    /\ UNCHANGED <<file_size, retries, closed_sockets, sleeps, outcomes,
                   progress_dict, short_reads, client_shutdown_event, connVars,
                   tcpServerVars, io_fault, nonTcpVars>>

\* tcp_socket.connect succeeded: a new connection, waiting in the listen
\* backlog for tcp_server's accept (client.py:95-96)
tcp_test_connect ==
    /\ c_pc = "connect"
    /\ c_pc' = "sendall"
    /\ c2s' = <<>>
    /\ c2s_closed' = FALSE
    /\ s2c' = 0
    /\ s2c_closed' = FALSE
    /\ short_reads' = 0
    /\ s_pc' = "accept"
    /\ raw_data' = <<>>
    /\ s_file_size' = -1
    /\ bytes_sent' = 0
    /\ UNCHANGED <<file_size, retries, bytes_received, tcp_socket, closed_sockets,
                   sleeps, outcomes, progress_dict, client_shutdown_event,
                   max_chunk, server_shutdown_event, io_fault, nonTcpVars>>

\* tcp_socket.connect raised (refused, timed out) (client.py:96, 119-125)
tcp_test_connect_error ==
    /\ c_pc = "connect"
    /\ io_fault' = TRUE
    /\ tcp_test_except("io_error")
    /\ UNCHANGED <<file_size, bytes_received, tcp_socket, progress_dict,
                   short_reads, client_shutdown_event, c2s, s2c, s2c_closed,
                   tcpServerVars, nonTcpVars>>

\* tcp_socket.sendall(f"{file_size}\n".encode()) (client.py:97)
tcp_test_sendall ==
    /\ c_pc = "sendall"
    /\ c2s' = c2s \o request_line(file_size)
    /\ c_pc' = "recv"
    /\ UNCHANGED <<file_size, retries, bytes_received, tcp_socket, closed_sockets,
                   sleeps, outcomes, progress_dict, short_reads,
                   client_shutdown_event, c2s_closed, s2c, s2c_closed,
                   tcpServerVars, io_fault, nonTcpVars>>

\* tcp_socket.sendall raised (client.py:97, 119-125)
tcp_test_sendall_error ==
    /\ c_pc = "sendall"
    /\ io_fault' = TRUE
    /\ tcp_test_except("io_error")
    /\ UNCHANGED <<file_size, bytes_received, tcp_socket, progress_dict,
                   short_reads, client_shutdown_event, c2s, s2c, s2c_closed,
                   tcpServerVars, nonTcpVars>>

\* the sizes tcp_socket.recv(chunk_size) may return with avail bytes in flight:
\* all it can take, or (a short read) one byte or half of them
recv_sizes(avail) ==
    {Min(chunk_size, avail)}
      \cup (IF short_reads < MaxShortReads
            THEN {n \in {1, avail \div 2} : 1 <= n /\ n <= chunk_size}
            ELSE {})

\* chunk = tcp_socket.recv(chunk_size) returned data; the progress update; the
\* loop condition and, once it is false, the report and return
\* (client.py:100-117)
tcp_test_recv ==
    /\ c_pc = "recv"
    /\ s2c > 0
    /\ \E n \in recv_sizes(s2c) :
         /\ s2c' = s2c - n
         /\ short_reads' = IF n < Min(chunk_size, s2c) THEN short_reads + 1
                           ELSE short_reads
         /\ bytes_received' = bytes_received + n
         /\ progress_dict' = [progress_dict EXCEPT ![T1] = bytes_received + n]
         /\ IF bytes_received + n < file_size
            THEN UNCHANGED <<c_pc, retries, sleeps, outcomes, closed_sockets,
                             c2s_closed>>
            ELSE tcp_test_return
    /\ UNCHANGED <<file_size, tcp_socket, client_shutdown_event, c2s, s2c_closed,
                   tcpServerVars, io_fault, nonTcpVars>>

\* chunk = tcp_socket.recv(chunk_size) returned b"": the server closed and
\* everything it sent has been read (client.py:101-105)
tcp_test_recv_eof ==
    /\ c_pc = "recv"
    /\ s2c = 0
    /\ s2c_closed
    /\ tcp_test_empty_chunk
    /\ UNCHANGED <<file_size, bytes_received, tcp_socket, progress_dict,
                   short_reads, client_shutdown_event, c2s, s2c, s2c_closed,
                   tcpServerVars, io_fault, nonTcpVars>>

\* tcp_socket.recv raised (the 10 s timeout, a reset) (client.py:101, 119-125)
tcp_test_recv_error ==
    /\ c_pc = "recv"
    /\ io_fault' = TRUE
    /\ tcp_test_except("io_error")
    /\ UNCHANGED <<file_size, bytes_received, tcp_socket, progress_dict,
                   short_reads, client_shutdown_event, c2s, s2c, s2c_closed,
                   tcpServerVars, nonTcpVars>>

\* client_shutdown_event.set() (client.py:307)
client_shutdown ==
    /\ ~client_shutdown_event
    /\ \/ c_pc \in {"while", "connect", "sendall", "recv"}
       \/ u_pc \in {"while", "sendto", "recvfrom"}
       \/ d_pc \in {"while", "recvfrom"}
    /\ client_shutdown_event' = TRUE
    /\ UNCHANGED <<file_size, progress_dict, tcpOnlyVars, connVars,
                   tcpServerVars, io_fault, nonTcpVars>>

tcp_test ==
    \/ tcp_test_while
    \/ tcp_test_connect
    \/ tcp_test_connect_error
    \/ tcp_test_sendall
    \/ tcp_test_sendall_error
    \/ tcp_test_recv
    \/ tcp_test_recv_eof
    \/ tcp_test_recv_error

(***************************************************************************)
(* SpecTcp: one tcp_test thread against tcp_server / handle_client_tcp     *)
(***************************************************************************)
\* udp_test is not running
IdleUdpClient ==
    /\ u_pc = "absent"
    /\ u_retries = RETRIES
    /\ request_msg = <<>>
    /\ start_time = 0
    /\ packets = {}
    /\ arrival_times = <<>>
    /\ received_packets = 0
    /\ last_update_time = 0
    /\ no_data_count = 0
    /\ lost_packets = 0
    /\ jitter = <<0, 1>>
    /\ now = 0
    /\ u_attempts = 0
    /\ rx_count = 0
    /\ rx_valid = 0
    /\ rx_last = <<>>
    /\ quiet_run = 0
    /\ first_total = -1
    /\ valid_seqs = {}

\* udp_server and handle_client_udp are not running
IdleUdpServer ==
    /\ h_pc = "absent"
    /\ h_data = <<>>
    /\ h_addr = <<>>
    /\ total_segments = 0
    /\ sent_segments = 0
    /\ segment = 0
    /\ h_sent = <<>>
    /\ h_failed = {}

\* udp_discover is not running
IdleDiscover ==
    /\ d_pc = "absent"
    /\ d_socket = "closed"
    /\ d_result = <<>>
    /\ d_history = <<>>
    /\ d_late_waits = 0

\* progress_dict has not been accessed
NoAccess == [by |-> <<>>, locked |-> TRUE, concurrent |-> FALSE]

\* perform_speed_test's launching thread is not modelled
IdleOrch ==
    /\ o_pc = "absent"
    /\ tcp_connections = 0
    /\ udp_connections = 0
    /\ o_i = 0
    /\ threads = <<>>
    /\ w_pc = [t \in AllThreadIds |-> "unstarted"]
    /\ w_retries = [t \in AllThreadIds |-> RETRIES]
    /\ progress_lock = <<>>
    /\ last_access = NoAccess

\* the loops of the server are not modelled
IdleLoops ==
    /\ b_pc = "absent"
    /\ b_socket = "closed"
    /\ b_offers = 0
    /\ b_failures = 0
    /\ ts_pc = "absent"
    /\ ts_socket = "closed"
    /\ us_pc = "absent"
    /\ us_socket = "closed"
    /\ handlers = <<>>
    /\ late_waits = [beacon |-> 0, tcp |-> 0, udp |-> 0]

\* no message is being packed
IdleCodec ==
    /\ k_pc = "absent"
    /\ k_msg = <<>>
    /\ k_wire = <<>>
    /\ k_out = <<>>

InitNonTcp ==
    /\ IdleUdpClient
    /\ IdleUdpServer
    /\ IdleDiscover
    /\ IdleOrch
    /\ IdleLoops
    /\ IdleCodec

InitTcp ==
    /\ file_size \in FileSizes
    /\ c_pc = "while"
    /\ retries = RETRIES
    /\ bytes_received = 0
    /\ tcp_socket = 0
    /\ closed_sockets = {}
    /\ sleeps = 0
    /\ outcomes = <<>>
    /\ progress_dict = [t \in {T1} |-> 0]
    /\ short_reads = 0
    /\ client_shutdown_event = FALSE
    /\ c2s = <<>>
    /\ c2s_closed = FALSE
    /\ s2c = 0
    /\ s2c_closed = FALSE
    /\ s_pc = "none"
    /\ raw_data = <<>>
    /\ s_file_size = -1
    /\ bytes_sent = 0
    /\ max_chunk = 0
    /\ server_shutdown_event = FALSE
    /\ io_fault = FALSE
    /\ InitNonTcp

NextTcp ==
    \/ tcp_test_while
    \/ tcp_test_connect
    \/ tcp_test_connect_error
    \/ tcp_test_sendall
    \/ tcp_test_sendall_error
    \/ tcp_test_recv
    \/ tcp_test_recv_eof
    \/ tcp_test_recv_error
    \/ client_shutdown
    \/ tcp_server_accept
    \/ handle_client_tcp_recv
    \/ handle_client_tcp_recv_eof
    \/ handle_client_tcp_recv_error
    \/ handle_client_tcp_send
    \/ handle_client_tcp_send_error
    \/ handle_client_tcp_finish
    \/ server_shutdown

SpecTcp == InitTcp /\ [][NextTcp]_vars


(***************************************************************************)
(* SpecTcpHandler: handle_client_tcp against an arbitrary TCP peer, which  *)
(* has sent any bytes at all (or none) and may close at any time           *)
(***************************************************************************)
\* what a peer may have written to the connection
RawRequests ==
    { request_line(0), request_line(1), request_line(5000), request_line(16385),
      int_str(8193),                   \* "8193", no newline
      <<32, 52, 50, 32, 13, 10>>,      \* " 42 \r\n"
      <<97, 98, 99, 10>>,              \* "abc\n"
      <<45, 53, 10>>,                  \* "-5\n"
      <<49, 50, 97, 10>>,              \* "12a\n"
      <<49, 32, 50, 10>>,              \* "1 2\n"
      <<10>>,                          \* "\n"
      <<49, 255, 50, 10>>,             \* b"1\xff2\n"
      <<>> }                           \* nothing

\* the peer closes its end of the connection
peer_close ==
    /\ c_pc = "absent"
    /\ ~c2s_closed
    /\ s_pc \in {"accept", "recv", "send"}
    /\ c2s_closed' = TRUE
    /\ UNCHANGED <<tcpClientVars, c2s, s2c, s2c_closed, tcpServerVars, io_fault,
                   nonTcpVars>>

InitTcpHandler ==
    /\ file_size = 0
    /\ c_pc = "absent"
    /\ retries = RETRIES
    /\ bytes_received = 0
    /\ tcp_socket = 0
    /\ closed_sockets = {}
    /\ sleeps = 0
    /\ outcomes = <<>>
    /\ progress_dict = [t \in {} |-> 0]
    /\ short_reads = 0
    /\ client_shutdown_event = FALSE
    /\ c2s \in RawRequests
    /\ c2s_closed = FALSE
    /\ s2c = 0
    /\ s2c_closed = FALSE
    /\ s_pc = "accept"
    /\ raw_data = <<>>
    /\ s_file_size = -1
    /\ bytes_sent = 0
    /\ max_chunk = 0
    /\ server_shutdown_event = FALSE
    /\ io_fault = FALSE
    /\ InitNonTcp

NextTcpHandler ==
    \/ peer_close
    \/ tcp_server_accept
    \/ handle_client_tcp_recv
    \/ handle_client_tcp_recv_eof
    \/ handle_client_tcp_recv_error
    \/ handle_client_tcp_send
    \/ handle_client_tcp_send_error
    \/ handle_client_tcp_finish
    \/ server_shutdown

SpecTcpHandler == InitTcpHandler /\ [][NextTcpHandler]_vars

(***************************************************************************)
(* Claims about the TCP transfer                                           *)
(***************************************************************************)
\* no I/O error has been injected and neither shutdown event is set
Undisturbed == ~io_fault /\ ~client_shutdown_event /\ ~server_shutdown_event

\* the attempts that did not end in success
FailedAttempts == {i \in DOMAIN outcomes : outcomes[i] # "success"}

\* C1: with no I/O error and no shutdown, however the byte stream is split
\* into recv chunks, the server streams exactly file_size bytes and the
\* client's first attempt ends in success with bytes_received = file_size.
C1_FirstAttemptSucceeds ==
    Undisturbed =>
        /\ FailedAttempts = {}
        /\ (s_pc = "closed" => bytes_sent = file_size)
        /\ (c_pc = "success" => bytes_received = file_size)

\* C2: an attempt that ends in success has bytes_received = file_size; a
\* connection closed short of file_size is never a success but a failure
\* that consumes one retry.
C2_SuccessOnlyWhenComplete ==
    /\ c_pc = "success" => bytes_received = file_size
    /\ \A i \in DOMAIN outcomes :
         outcomes[i] = "success" => (i = Len(outcomes) /\ c_pc = "success")
    /\ retries = RETRIES - Cardinality(FailedAttempts)

\* C2 witness: an attempt was closed prematurely, and a later one succeeded
C2_Witness ==
    /\ c_pc = "success"
    /\ \E i \in DOMAIN outcomes : outcomes[i] = "premature_close"

\* C7: k failed attempts (k <= 2) followed by a successful one end in
\* success after exactly k backoff sleeps; every attempt has a fresh socket
\* and starts from bytes_received = 0; after three failures tcp_test gives
\* up, having made exactly 3 attempts, and never makes a fourth.
C7_RetryBudget ==
    /\ c_pc = "success" =>
         /\ Cardinality(FailedAttempts) = Len(outcomes) - 1
         /\ Len(outcomes) - 1 <= RETRIES - 1
         /\ sleeps = Len(outcomes) - 1
    /\ c_pc = "gave_up" =>
         /\ Len(outcomes) = RETRIES
         /\ FailedAttempts = DOMAIN outcomes
         /\ tcp_socket = RETRIES
    /\ tcp_socket <= RETRIES
    /\ InAttempt =>
         /\ tcp_socket \notin closed_sockets
         /\ tcp_socket = Len(outcomes) + 1
    /\ c_pc = "connect" => bytes_received = 0

\* C7 witness: two attempts failed and the third succeeded
C7_Witness ==
    /\ c_pc = "success"
    /\ Len(outcomes) = RETRIES
    /\ sleeps = RETRIES - 1

\* the handler has read and parsed a request
Parsed == s_file_size # -1

\* C6: bytes_sent never exceeds the parsed size n, no chunk exceeds 8192
\* bytes, and without shutdown or send error the handler closes only after
\* sending exactly n bytes.
C6_SendsExactlyRequested ==
    /\ max_chunk <= chunk_size
    /\ Parsed => bytes_sent <= s_file_size
    /\ (Parsed /\ s_pc = "closed" /\ ~server_shutdown_event /\ ~io_fault)
          => bytes_sent = s_file_size

\* C6 witness: a request for more than two chunks was served in full
C6_Witness ==
    /\ s_pc = "closed"
    /\ s_file_size = 16385
    /\ bytes_sent = 16385
    /\ max_chunk = chunk_size

\* the bytes read are a decimal integer: ASCII digits only, apart from
\* surrounding white space such as the terminating newline
IsDecimalRequest(raw) == str_isdigit(str_strip(raw))

\* the handler is past its initial read
RequestRead == s_pc \in {"send", "closed"}

\* C8: if the request read is not a valid non-negative decimal integer (or no
\* data is received), the handler sends zero bytes and closes the connection.
C8_InvalidRequestSendsNothing ==
    (RequestRead /\ ~IsDecimalRequest(raw_data)) =>
        /\ s_pc = "closed"
        /\ bytes_sent = 0
        /\ s2c = 0

(***************************************************************************)
(* udp_test (client.py:127-217)                                            *)
(***************************************************************************)
\* the transfer identifier of the one udp_test thread of SpecUdpClient and
\* thread_num = int(t_id[1:]) (client.py:138)
U1 == t_id("U", 0)
thread_num == U1[2]

\* expected_packets = file_size // 1024 (client.py:194)
expected_packets == file_size \div SEGMENT_SIZE

\* sum(abs(t[i] - t[i-1]) for i in range(1, len(t))) (client.py:199-200)
RECURSIVE sum_abs_deltas(_)
sum_abs_deltas(t) ==
    IF Len(t) < 2 THEN 0
    ELSE LET d == t[Len(t)] - t[Len(t) - 1]
         IN sum_abs_deltas(SubSeq(t, 1, Len(t) - 1)) + (IF d < 0 THEN -d ELSE d)

\* jitter = sum(deltas) / len(deltas), 0.0 with fewer than two arrivals, as
\* the fraction <<numerator, denominator>> (client.py:197-200)
jitter_of(t) == IF Len(t) > 1 THEN <<sum_abs_deltas(t), Len(t) - 1>> ELSE <<0, 1>>

\* if seq not in packets (client.py:171)
udp_is_new_mutant(seq) == TRUE
udp_is_new(seq) == seq \notin packets

\* except Exception: retries -= 1; sleep(1) if retries remain; finally close
\* (client.py:208-217)
udp_test_except ==
    /\ u_retries' = u_retries - 1
    /\ u_pc' = "while"

\* the receive loop is over with received unique packets and the arrival
\* times arrived: the statistics, the report, return (client.py:193-206)
udp_test_return_mutant(received, arrived) ==
    /\ lost_packets' = expected_packets - (rx_valid + 1)
    /\ jitter' = jitter_of(arrived)
    /\ u_pc' = "success"
udp_test_return(received, arrived) ==
    /\ lost_packets' = expected_packets - received
    /\ jitter' = jitter_of(arrived)
    /\ u_pc' = "success"

\* the while condition, then a new socket (client.py:132-133); falling out
\* of the loop returns None
udp_test_while ==
    /\ u_pc = "while"
    /\ IF u_retries > 0 /\ ~client_shutdown_event
       THEN /\ u_attempts' = u_attempts + 1
            /\ u_pc' = "sendto"
       ELSE /\ u_pc' = IF u_retries > 0 THEN "stopped" ELSE "gave_up"
            /\ UNCHANGED u_attempts
    /\ UNCHANGED <<u_retries, request_msg, start_time, packets, arrival_times,
                   received_packets, last_update_time, no_data_count,
                   lost_packets, jitter, now, rx_count, rx_valid, rx_last,
                   quiet_run, first_total, valid_seqs,
                   file_size, progress_dict, client_shutdown_event, io_fault,
                   nonUdpClientVars>>

\* the Request is packed and sent, and the locals of the receive loop are
\* set up (client.py:136-155)
udp_test_sendto ==
    /\ u_pc = "sendto"
    /\ request_msg' = struct_pack_IBQQ(OFFER_MAGIC_COOKIE, REQUEST_MESSAGE_TYPE,
                                       file_size, thread_num)
    /\ start_time' = now
    /\ packets' = {}
    /\ arrival_times' = <<>>
    /\ received_packets' = 0
    /\ last_update_time' = now
    /\ no_data_count' = 0
    /\ rx_count' = 0
    /\ rx_valid' = 0
    /\ rx_last' = <<>>
    /\ quiet_run' = 0
    /\ first_total' = -1
    /\ valid_seqs' = {}
    /\ u_pc' = "recvfrom"
    /\ UNCHANGED <<u_retries, lost_packets, jitter, now, u_attempts, file_size,
                   progress_dict, client_shutdown_event, io_fault,
                   nonUdpClientVars>>

\* udp_socket.sendto raised (client.py:148, 208-217)
udp_test_sendto_error ==
    /\ u_pc = "sendto"
    /\ io_fault' = TRUE
    /\ udp_test_except
    /\ UNCHANGED <<request_msg, start_time, packets, arrival_times,
                   received_packets, last_update_time, no_data_count,
                   lost_packets, jitter, now, u_attempts, rx_count, rx_valid,
                   rx_last, quiet_run, first_total,
                   valid_seqs, file_size, progress_dict, client_shutdown_event,
                   nonUdpClientVars>>

\* the datagrams the network may deliver to udp_test's socket
ClientDatagrams ==
    {udp_payload(t, q) : t \in 0..MaxTotal, q \in 0..MaxSeq}
      \cup { \* a Payload header with no data after it
             struct_pack_IBQQ(OFFER_MAGIC_COOKIE, PAYLOAD_MESSAGE_TYPE, 2, 1),
             \* a Payload cut one byte short of its header
             SubSeq(udp_payload(1, 0), 1, header_size - 1),
             \* the wrong magic cookie
             struct_pack_IBQQ(<<171, 205, 220, 187>>, PAYLOAD_MESSAGE_TYPE, 1, 0)
                 \o filler(SEGMENT_SIZE - header_size),
             \* the wrong message type
             struct_pack_IBQQ(OFFER_MAGIC_COOKIE, REQUEST_MESSAGE_TYPE, 1, 0)
                 \o filler(SEGMENT_SIZE - header_size),
             \* an empty datagram
             <<>> }

\* what the head of the receive loop makes of a datagram: recvfrom(2048)
\* truncates it, one shorter than the header is skipped, the header is
\* unpacked and a wrong cookie or message type is skipped (client.py:159-169)
udp_test_parse_mutant(dgram) ==
    LET data == SubSeq(dgram, 1, Min(UDP_RECV_SIZE, Len(dgram)))
        m == struct_unpack_IBQQ(SubSeq(data, 1, header_size))
    IN IF Len(data) < header_size
       THEN [total |-> 0, seq |-> 0, valid |-> FALSE]
       ELSE IF m.cookie # OFFER_MAGIC_COOKIE
       THEN [total |-> 0, seq |-> 0, valid |-> FALSE]
       ELSE [total |-> m.q1, seq |-> m.q2, valid |-> TRUE]
udp_test_parse(dgram) ==
    LET data == SubSeq(dgram, 1, Min(UDP_RECV_SIZE, Len(dgram)))
        m == struct_unpack_IBQQ(SubSeq(data, 1, header_size))
    IN IF Len(data) < header_size
       THEN [total |-> 0, seq |-> 0, valid |-> FALSE]
       ELSE IF m.cookie # OFFER_MAGIC_COOKIE \/ m.msg_type # PAYLOAD_MESSAGE_TYPE
       THEN [total |-> 0, seq |-> 0, valid |-> FALSE]
       ELSE [total |-> m.q1, seq |-> m.q2, valid |-> TRUE]

\* the cookie and message type bytes a datagram starts with (fewer when the
\* datagram is shorter)
frame_head(dgram) == SubSeq(dgram, 1, Min(4 + 1, Len(dgram)))

\* a datagram on arrival: the bytes it starts with and what the head of the
\* receive loop makes of it
udp_test_arrival(dgram) ==
    [m |-> udp_test_parse(dgram), head |-> frame_head(dgram)]

\* the datagrams of ClientDatagrams as they arrive
ArrivingClientDatagrams == {udp_test_arrival(d) : d \in ClientDatagrams}

\* if received_packets >= total: break (client.py:184-185)
udp_complete_mutant(received, total) == received > total
udp_complete(received, total) == received >= total

\* data, _ = udp_socket.recvfrom(2048) returned one of the datagrams in
\* arrivals, at most limit of which arrive in one attempt: one pass through
\* the body of the receive loop (client.py:159-185), and the statistics and
\* return when the loop breaks (client.py:193-206)
udp_test_receive(arrivals, limit) ==
    /\ u_pc = "recvfrom"
    /\ rx_count < limit
    /\ rx_count' = rx_count + 1
    /\ quiet_run' = 0
    /\ \E a \in arrivals :
         LET m == a.m
             is_new == udp_is_new(m.seq)
             received == IF is_new THEN received_packets + 1 ELSE received_packets
             arrived == IF is_new THEN Append(arrival_times, now) ELSE arrival_times
         IN /\ rx_last' = a.head
            /\ IF ~m.valid
               THEN UNCHANGED <<u_pc, packets, arrival_times, received_packets,
                                last_update_time, no_data_count, lost_packets,
                                jitter, rx_valid, first_total, valid_seqs,
                                progress_dict>>
               ELSE /\ rx_valid' = rx_valid + 1
                    /\ first_total' = IF first_total = -1 THEN m.total
                                      ELSE first_total
                    /\ valid_seqs' = valid_seqs \cup {m.seq}
                    /\ packets' = IF is_new THEN packets \cup {m.seq} ELSE packets
                    /\ received_packets' = received
                    /\ arrival_times' = arrived
                    /\ no_data_count' = IF is_new THEN 0 ELSE no_data_count
                    /\ IF now - last_update_time >= 1
                       THEN /\ progress_dict' =
                                 [progress_dict EXCEPT ![U1] = received]
                            /\ last_update_time' = now
                       ELSE UNCHANGED <<progress_dict, last_update_time>>
                    /\ IF udp_complete(received, m.total)
                       THEN udp_test_return(received, arrived)
                       ELSE UNCHANGED <<u_pc, lost_packets, jitter>>
    /\ UNCHANGED <<u_retries, request_msg, start_time, now, u_attempts,
                   file_size, client_shutdown_event, io_fault, nonUdpClientVars>>

\* the receive loop of SpecUdpClient: any datagram of ClientDatagrams
udp_test_recvfrom == udp_test_receive(ArrivingClientDatagrams, MaxDatagrams)

\* udp_socket.recvfrom timed out (client.py:187-191), and the statistics and
\* return when the loop breaks (client.py:193-206)
udp_test_timeout_mutant ==
    /\ u_pc = "recvfrom"
    /\ no_data_count' = no_data_count + 1
    /\ quiet_run' = quiet_run + 1
    /\ udp_test_except
    /\ UNCHANGED <<lost_packets, jitter>>
    /\ UNCHANGED <<request_msg, start_time, packets, arrival_times,
                   received_packets, last_update_time, now, u_attempts, rx_count,
                   rx_valid, rx_last,
                   first_total, valid_seqs, file_size, progress_dict,
                   client_shutdown_event, io_fault, nonUdpClientVars>>
udp_test_timeout ==
    /\ u_pc = "recvfrom"
    /\ no_data_count' = no_data_count + 1
    /\ quiet_run' = quiet_run + 1
    /\ IF no_data_count + 1 > max_no_data
       THEN udp_test_return(received_packets, arrival_times)
       ELSE UNCHANGED <<u_pc, lost_packets, jitter>>
    /\ UNCHANGED <<u_retries, request_msg, start_time, packets, arrival_times,
                   received_packets, last_update_time, now, u_attempts, rx_count,
                   rx_valid, rx_last,
                   first_total, valid_seqs, file_size, progress_dict,
                   client_shutdown_event, io_fault, nonUdpClientVars>>

\* udp_socket.recvfrom raised an error that is no timeout (client.py:159,
\* 208-217)
udp_test_recvfrom_error ==
    /\ u_pc = "recvfrom"
    /\ io_fault' = TRUE
    /\ udp_test_except
    /\ UNCHANGED <<request_msg, start_time, packets, arrival_times,
                   received_packets, last_update_time, no_data_count,
                   lost_packets, jitter, now, u_attempts, rx_count, rx_valid,
                   rx_last, quiet_run, first_total,
                   valid_seqs, file_size, progress_dict, client_shutdown_event,
                   nonUdpClientVars>>

\* time passes, up to limit
tick_to(limit) ==
    /\ now < limit
    /\ u_pc \in {"while", "sendto", "recvfrom"}
    /\ now' = now + 1
    /\ UNCHANGED <<u_pc, u_retries, request_msg, start_time, packets,
                   arrival_times, received_packets, last_update_time,
                   no_data_count, lost_packets, jitter, u_attempts, rx_count,
                   rx_valid, rx_last, quiet_run,
                   first_total, valid_seqs, file_size, progress_dict,
                   client_shutdown_event, io_fault, nonUdpClientVars>>

\* time passes in SpecUdpClient
tick == tick_to(MaxClock)

(***************************************************************************)
(* SpecUdpClient: one udp_test thread against a network that delivers any  *)
(* datagrams in any order                                                  *)
(***************************************************************************)
\* file sizes udp_test is run with: 0 and 2 expected segments
UdpFileSizes == {1000, 2048}

\* tcp_test and its connection are not there
IdleTcp ==
    /\ c_pc = "absent"
    /\ retries = RETRIES
    /\ bytes_received = 0
    /\ tcp_socket = 0
    /\ closed_sockets = {}
    /\ sleeps = 0
    /\ outcomes = <<>>
    /\ short_reads = 0
    /\ c2s = <<>>
    /\ c2s_closed = FALSE
    /\ s2c = 0
    /\ s2c_closed = FALSE
    /\ s_pc = "none"
    /\ raw_data = <<>>
    /\ s_file_size = -1
    /\ bytes_sent = 0
    /\ max_chunk = 0
    /\ server_shutdown_event = FALSE

InitUdpClient ==
    /\ file_size \in UdpFileSizes
    /\ progress_dict = [t \in {U1} |-> 0]
    /\ client_shutdown_event = FALSE
    /\ io_fault = FALSE
    /\ IdleTcp
    /\ IdleUdpServer
    /\ IdleDiscover
    /\ IdleOrch
    /\ IdleCodec
    /\ IdleLoops
    /\ u_pc = "while"
    /\ u_retries = RETRIES
    /\ request_msg = <<>>
    /\ start_time = 0
    /\ packets = {}
    /\ arrival_times = <<>>
    /\ received_packets = 0
    /\ last_update_time = 0
    /\ no_data_count = 0
    /\ lost_packets = 0
    /\ jitter = <<0, 1>>
    /\ now = 0
    /\ u_attempts = 0
    /\ rx_count = 0
    /\ rx_valid = 0
    /\ rx_last = <<>>
    /\ quiet_run = 0
    /\ first_total = -1
    /\ valid_seqs = {}

NextUdpClient ==
    \/ udp_test_while
    \/ udp_test_sendto
    \/ udp_test_sendto_error
    \/ udp_test_recvfrom
    \/ udp_test_timeout
    \/ udp_test_recvfrom_error
    \/ tick
    \/ client_shutdown

SpecUdpClient == InitUdpClient /\ [][NextUdpClient]_vars

(***************************************************************************)
(* Claims about udp_test                                                   *)
(***************************************************************************)
\* C3: received_packets never exceeds the total_segments carried by the
\* first valid payload of the attempt, whatever datagrams arrive.
C3_ReceivedWithinDeclaredTotal ==
    (u_pc \in {"recvfrom", "success"} /\ first_total # -1)
        => received_packets <= first_total

\* C4: received_packets is the number of distinct sequence numbers among
\* the valid Payload datagrams received so far in the attempt, and
\* arrival_times has one entry per distinct sequence number.
C4_CountsDistinctSequences ==
    u_pc \in {"recvfrom", "success"} =>
        /\ received_packets = Cardinality(valid_seqs)
        /\ Len(arrival_times) = Cardinality(valid_seqs)
        /\ packets = valid_seqs

\* C4 witness: a sequence number has arrived a second time, after a timeout
C4_Witness ==
    /\ u_pc = "recvfrom"
    /\ rx_valid = 2
    /\ received_packets = 1
    /\ no_data_count = 1

(***************************************************************************)
(* udp_server and handle_client_udp (server.py:120-199)                    *)
(***************************************************************************)
\* total_segments = file_size // 1024 (server.py:136)
udp_total_segments_mutant(size) == (size + SEGMENT_SIZE - 1) \div SEGMENT_SIZE
udp_total_segments(size) == size \div SEGMENT_SIZE

\* the file sizes and stream ids of the Requests sent to the server
UdpRequestSizes == {0, 1023, 1024, 2047, 3072}
UdpRequestIds == {1, 2}

\* the datagrams that may arrive on the server's UDP port
ServerDatagrams ==
    {struct_pack_IBQQ(OFFER_MAGIC_COOKIE, REQUEST_MESSAGE_TYPE, size, id) :
         size \in UdpRequestSizes, id \in UdpRequestIds}
      \cup { \* the wrong magic cookie
             struct_pack_IBQQ(<<171, 205, 220, 187>>, REQUEST_MESSAGE_TYPE, 2048, 1),
             \* the wrong message type
             struct_pack_IBQQ(OFFER_MAGIC_COOKIE, PAYLOAD_MESSAGE_TYPE, 2048, 1),
             \* a Request cut one byte short, and one with a byte too many
             SubSeq(struct_pack_IBQQ(OFFER_MAGIC_COOKIE, REQUEST_MESSAGE_TYPE,
                                     2048, 1), 1, header_size - 1),
             struct_pack_IBQQ(OFFER_MAGIC_COOKIE, REQUEST_MESSAGE_TYPE, 2048, 1)
                 \o <<0>>,
             \* an empty datagram
             <<>> }

\* the addresses datagrams come from
Addrs == {<<"10.0.0.7", 50001>>, <<"10.0.0.8", 50002>>}

\* data, addr = udp_socket.recvfrom(2048) returned a datagram and a handler
\* thread is started for it (server.py:184-194)
udp_server_recvfrom ==
    /\ h_pc = "recvfrom"
    /\ ~server_shutdown_event
    /\ \E dgram \in ServerDatagrams, addr \in Addrs :
         /\ h_data' = SubSeq(dgram, 1, Min(UDP_RECV_SIZE, Len(dgram)))
         /\ h_addr' = addr
    /\ h_pc' = "start"
    /\ UNCHANGED <<total_segments, sent_segments, segment, h_sent, h_failed,
                   server_shutdown_event, io_fault, nonUdpServerVars>>

\* the datagram is unpacked and checked (server.py:124-139): struct.error for
\* a datagram that is not 21 bytes long and a wrong cookie or message type
\* both end the handler
handle_client_udp_start ==
    /\ h_pc = "start"
    /\ IF Len(h_data) # header_size
       THEN /\ h_pc' = "done"
            /\ UNCHANGED <<total_segments, sent_segments, segment>>
       ELSE LET m == struct_unpack_IBQQ(h_data)
            IN IF m.cookie # OFFER_MAGIC_COOKIE
                  \/ m.msg_type # REQUEST_MESSAGE_TYPE
               THEN /\ h_pc' = "done"
                    /\ UNCHANGED <<total_segments, sent_segments, segment>>
               ELSE /\ total_segments' = udp_total_segments(m.q1)
                    /\ sent_segments' = 0
                    /\ segment' = 0
                    /\ h_pc' = "loop"
    /\ UNCHANGED <<h_data, h_addr, h_sent, h_failed, server_shutdown_event,
                   io_fault, nonUdpServerVars>>

\* one iteration of the segment loop whose sendto succeeds (server.py:141-158)
handle_client_udp_send ==
    /\ h_pc = "loop"
    /\ segment < total_segments
    /\ ~server_shutdown_event
    /\ LET payload == udp_payload(total_segments, segment)
       IN h_sent' = Append(h_sent, [header |-> SubSeq(payload, 1, header_size),
                                    length |-> Len(payload),
                                    addr   |-> h_addr])
    /\ sent_segments' = sent_segments + 1
    /\ segment' = segment + 1
    /\ UNCHANGED <<h_pc, h_data, h_addr, total_segments, h_failed,
                   server_shutdown_event, io_fault, nonUdpServerVars>>

\* one iteration of the segment loop whose sendto raises: logged, continue
\* (server.py:141-154, 160-163)
handle_client_udp_send_error ==
    /\ h_pc = "loop"
    /\ segment < total_segments
    /\ ~server_shutdown_event
    /\ io_fault' = TRUE
    /\ h_failed' = h_failed \cup {segment}
    /\ segment' = segment + 1
    /\ UNCHANGED <<h_pc, h_data, h_addr, total_segments, sent_segments, h_sent,
                   server_shutdown_event, nonUdpServerVars>>

\* the loop is exhausted or breaks on the shutdown event: "Finished sending",
\* finally close (server.py:141-143, 165-170)
handle_client_udp_finish ==
    /\ h_pc = "loop"
    /\ (segment >= total_segments \/ server_shutdown_event)
    /\ h_pc' = "done"
    /\ UNCHANGED <<h_data, h_addr, total_segments, sent_segments, segment,
                   h_sent, h_failed, server_shutdown_event, io_fault,
                   nonUdpServerVars>>

(***************************************************************************)
(* SpecUdpServer: udp_server receives one datagram from the network and    *)
(* handle_client_udp serves it                                             *)
(***************************************************************************)
InitUdpServer ==
    /\ file_size = 0
    /\ progress_dict = <<>>
    /\ client_shutdown_event = FALSE
    /\ io_fault = FALSE
    /\ IdleTcp
    /\ IdleUdpClient
    /\ IdleDiscover
    /\ IdleOrch
    /\ IdleCodec
    /\ IdleLoops
    /\ h_pc = "recvfrom"
    /\ h_data = <<>>
    /\ h_addr = <<>>
    /\ total_segments = 0
    /\ sent_segments = 0
    /\ segment = 0
    /\ h_sent = <<>>
    /\ h_failed = {}

NextUdpServer ==
    \/ udp_server_recvfrom
    \/ handle_client_udp_start
    \/ handle_client_udp_send
    \/ handle_client_udp_send_error
    \/ handle_client_udp_finish
    \/ server_shutdown

SpecUdpServer == InitUdpServer /\ [][NextUdpServer]_vars

(***************************************************************************)
(* Claims about handle_client_udp                                          *)
(***************************************************************************)
\* the datagram is a Request: 21 bytes that start with the magic cookie and
\* the Request type
IsRequest(d) ==
    /\ Len(d) = header_size
    /\ SubSeq(d, 1, 5) = OFFER_MAGIC_COOKIE \o <<REQUEST_MESSAGE_TYPE>>

\* the file_size field of a Request, file_size // 1024, and the sequence
\* numbers of the datagrams sent so far
RequestedSize == be_int(SubSeq(h_data, 6, 13))
Declared == RequestedSize \div SEGMENT_SIZE
SentSeqs == [i \in DOMAIN h_sent |-> be_int(SubSeq(h_sent[i].header, 14, 21))]

\* C5: for a valid Request with file_size f the handler sends, with no
\* shutdown and no send error, exactly f // 1024 Payload datagrams to the
\* sender, with the sequence numbers 0 .. f//1024 - 1 in increasing order and
\* total_segments = f // 1024 in each; always sent_segments <= total_segments;
\* a segment whose send fails is skipped and never re-sent, and the
\* remaining segments are still sent.
C5_EmitsDeclaredSegments ==
    (h_pc \in {"loop", "done"} /\ IsRequest(h_data)) =>
        /\ total_segments = Declared
        /\ sent_segments <= total_segments
        /\ sent_segments = Len(h_sent)
        /\ \A i \in DOMAIN h_sent :
             /\ h_sent[i].addr = h_addr
             /\ h_sent[i].length = SEGMENT_SIZE
             /\ SubSeq(h_sent[i].header, 1, 5)
                  = OFFER_MAGIC_COOKIE \o <<PAYLOAD_MESSAGE_TYPE>>
             /\ be_int(SubSeq(h_sent[i].header, 6, 13)) = Declared
             /\ SentSeqs[i] \in 0..(Declared - 1)
             /\ SentSeqs[i] \notin h_failed
             /\ \A j \in DOMAIN h_sent : i < j => SentSeqs[i] < SentSeqs[j]
        /\ (h_pc = "done" /\ ~server_shutdown_event) =>
             {SentSeqs[i] : i \in DOMAIN h_sent} = (0..(Declared - 1)) \ h_failed
        /\ (h_pc = "done" /\ ~server_shutdown_event /\ ~io_fault) =>
             SentSeqs = [i \in 1..Declared |-> i - 1]

\* C5 witness: of three segments the middle one failed and the other two
\* were sent
C5_Witness ==
    /\ h_pc = "done"
    /\ IsRequest(h_data)
    /\ RequestedSize = 3072
    /\ h_failed = {1}
    /\ SentSeqs = <<0, 2>>

(***************************************************************************)
(* udp_discover (client.py:31-69)                                          *)
(***************************************************************************)
\* return None, None, None (client.py:69)
NoOffer == <<"None", "None", "None">>

\* the datagrams that may arrive on the discovery port
OfferDatagrams ==
    { offer_message,
      struct_pack_IBHH(OFFER_MAGIC_COOKIE, OFFER_MESSAGE_TYPE, 1, 65535),
      \* the wrong magic cookie
      struct_pack_IBHH(<<171, 205, 220, 187>>, OFFER_MESSAGE_TYPE,
                       UDP_SERVER_PORT, TCP_SERVER_PORT),
      \* the wrong message type
      struct_pack_IBHH(OFFER_MAGIC_COOKIE, REQUEST_MESSAGE_TYPE,
                       UDP_SERVER_PORT, TCP_SERVER_PORT),
      \* an Offer cut one byte short, and one with a byte too many
      SubSeq(offer_message, 1, offer_size - 1),
      offer_message \o <<0>>,
      \* a Request
      struct_pack_IBQQ(OFFER_MAGIC_COOKIE, REQUEST_MESSAGE_TYPE, 2048, 1),
      \* an empty datagram
      <<>> }

\* the datagram unpacks (it is 9 bytes long) and carries the magic cookie and
\* the Offer type (client.py:57-66)
udp_discover_accepts_mutant(data) ==
    /\ Len(data) = offer_size
    /\ struct_unpack_IBHH(data).cookie = OFFER_MAGIC_COOKIE
udp_discover_accepts(data) ==
    /\ Len(data) = offer_size
    /\ struct_unpack_IBHH(data).cookie = OFFER_MAGIC_COOKIE
    /\ struct_unpack_IBHH(data).msg_type = OFFER_MESSAGE_TYPE

\* the loop condition (client.py:44-45); with the event set the socket is
\* closed and None, None, None returned (client.py:68-69)
udp_discover_while ==
    /\ d_pc = "while"
    /\ IF ~client_shutdown_event
       THEN /\ d_pc' = "recvfrom"
            /\ UNCHANGED <<d_socket, d_result>>
       ELSE /\ d_socket' = "closed"
            /\ d_result' = NoOffer
            /\ d_pc' = "returned"
    /\ UNCHANGED <<d_history, d_late_waits, client_shutdown_event, io_fault,
                   nonDiscVars>>

\* data, addr = udp_socket.recvfrom(1024) returned a datagram: it is parsed
\* and either returned from or dropped (client.py:47-48, 57-66)
udp_discover_recvfrom ==
    /\ d_pc = "recvfrom"
    /\ Len(d_history) < MaxOffers
    /\ \E dgram \in OfferDatagrams, addr \in Addrs :
         LET data == SubSeq(dgram, 1, Min(DISCOVER_RECV_SIZE, Len(dgram)))
             m == struct_unpack_IBHH(data)
         IN /\ d_history' = Append(d_history, [data |-> data, addr |-> addr])
            /\ IF udp_discover_accepts(data)
               THEN /\ d_socket' = "closed"
                    /\ d_result' = <<addr[1], m.h1, m.h2>>
                    /\ d_pc' = "returned"
               ELSE /\ d_pc' = "while"
                    /\ UNCHANGED <<d_socket, d_result>>
    /\ d_late_waits' = late(d_late_waits, client_shutdown_event)
    /\ UNCHANGED <<client_shutdown_event, io_fault, nonDiscVars>>

\* recvfrom timed out after 3 seconds: continue (client.py:50-52)
udp_discover_timeout ==
    /\ d_pc = "recvfrom"
    /\ d_pc' = "while"
    /\ d_late_waits' = late(d_late_waits, client_shutdown_event)
    /\ UNCHANGED <<d_socket, d_result, d_history, client_shutdown_event,
                   io_fault, nonDiscVars>>

\* KeyboardInterrupt in recvfrom: break, close, return None, None, None
\* (client.py:53-55, 68-69)
udp_discover_interrupt ==
    /\ d_pc = "recvfrom"
    /\ d_socket' = "closed"
    /\ d_result' = NoOffer
    /\ d_pc' = "returned"
    /\ d_late_waits' = late(d_late_waits, client_shutdown_event)
    /\ UNCHANGED <<d_history, client_shutdown_event, io_fault, nonDiscVars>>

(***************************************************************************)
(* SpecDiscover: udp_discover against a network that delivers any          *)
(* datagrams; client_shutdown is the stop signal given to the listener     *)
(***************************************************************************)
InitDiscover ==
    /\ file_size = 0
    /\ progress_dict = <<>>
    /\ client_shutdown_event = FALSE
    /\ io_fault = FALSE
    /\ IdleTcp
    /\ IdleUdpClient
    /\ IdleUdpServer
    /\ IdleOrch
    /\ IdleCodec
    /\ IdleLoops
    /\ d_pc = "while"
    /\ d_socket = "bound"
    /\ d_result = <<>>
    /\ d_history = <<>>
    /\ d_late_waits = 0

NextDiscover ==
    \/ udp_discover_while
    \/ udp_discover_recvfrom
    \/ udp_discover_timeout
    \/ udp_discover_interrupt
    \/ client_shutdown

SpecDiscover == InitDiscover /\ [][NextDiscover]_vars

(***************************************************************************)
(* Claims about udp_discover                                               *)
(***************************************************************************)
\* the datagram is a valid Offer: 9 bytes that start with the magic cookie
\* and the Offer type
IsOffer(d) ==
    /\ Len(d) = offer_size
    /\ SubSeq(d, 1, 5) = OFFER_MAGIC_COOKIE \o <<OFFER_MESSAGE_TYPE>>

\* the datagrams received before the latest one
Earlier == 1..(Len(d_history) - 1)

\* C10: udp_discover returns the sender's address and the ports of the first
\* valid Offer it receives; every earlier datagram was invalid and skipped,
\* nothing is returned from an invalid datagram, and the Offer returned from
\* is the last datagram consumed (the socket is closed on return).
C10_ReturnsFirstValidOffer ==
    /\ \A i \in Earlier : ~IsOffer(d_history[i].data)
    /\ (d_pc \in {"while", "recvfrom"} \/ d_result = NoOffer) =>
         \A i \in DOMAIN d_history : ~IsOffer(d_history[i].data)
    /\ (d_pc = "returned" /\ d_result # NoOffer) =>
         /\ d_history # <<>>
         /\ LET last == d_history[Len(d_history)]
            IN /\ IsOffer(last.data)
               /\ d_result = <<last.addr[1], be_int(SubSeq(last.data, 6, 7)),
                               be_int(SubSeq(last.data, 8, 9))>>
    /\ d_pc = "returned" => d_socket = "closed"

\* C10 witness: two invalid datagrams were skipped, then the server's Offer
\* was returned from
C10_Witness ==
    /\ d_pc = "returned"
    /\ Len(d_history) = 3
    /\ d_history[1].data # d_history[2].data
    /\ d_result = <<"10.0.0.8", UDP_SERVER_PORT, TCP_SERVER_PORT>>

(***************************************************************************)
(* perform_speed_test (client.py:82-239): the launching thread and its     *)
(* transfer threads.  A transfer thread is followed from attempt to        *)
(* attempt; what happens inside one attempt is in SpecTcp and SpecUdpClient *)
(***************************************************************************)
\* the thread has returned: from a successful attempt, out of retries, or
\* because client_shutdown_event was set
Terminated(t) == w_pc[t] \in {"success", "gave_up", "stopped"}

\* the transfer thread has been started and has not returned
Running(t) == w_pc[t] \in {"while", "attempt", "locked"}

\* the thread that runs perform_speed_test
MainThread == <<"main", 0>>

\* t.join() returns (client.py:237)
thread_join_returns_mutant(t) == TRUE
thread_join_returns(t) == Terminated(t)

\* progress_dict[t_id] = 0; t = threading.Thread(...); t.start();
\* threads.append(t); time.sleep(0.1) (client.py:221-226, 229-234)
orch_start_thread(tid) ==
    /\ progress_dict' = [k \in DOMAIN progress_dict \cup {tid} |->
                            IF k = tid THEN 0 ELSE progress_dict[k]]
    /\ last_access' = [by |-> MainThread,
                       locked |-> progress_lock = MainThread,
                       concurrent |-> \E t \in AllThreadIds : Running(t)]
    /\ w_pc' = [w_pc EXCEPT ![tid] = "while"]
    /\ w_retries' = [w_retries EXCEPT ![tid] = RETRIES]
    /\ threads' = Append(threads, tid)
    /\ o_i' = o_i + 1

\* one iteration of for i in range(tcp_connections) (client.py:220-226)
orch_launch_tcp ==
    /\ o_pc = "launch_tcp"
    /\ o_i < tcp_connections
    /\ orch_start_thread(t_id("T", o_i))
    /\ UNCHANGED <<o_pc, tcp_connections, udp_connections,
                   client_shutdown_event, io_fault, progress_lock,
                   nonOrchVars>>

\* the first loop is exhausted (client.py:220, 228)
orch_launch_tcp_done ==
    /\ o_pc = "launch_tcp"
    /\ o_i >= tcp_connections
    /\ o_pc' = "launch_udp"
    /\ o_i' = 0
    /\ UNCHANGED <<tcp_connections, udp_connections, threads, w_pc, w_retries,
                   progress_dict, client_shutdown_event, io_fault, lockVars,
                   nonOrchVars>>

\* one iteration of for i in range(udp_connections) (client.py:228-234)
orch_launch_udp ==
    /\ o_pc = "launch_udp"
    /\ o_i < udp_connections
    /\ orch_start_thread(t_id("U", o_i))
    /\ UNCHANGED <<o_pc, tcp_connections, udp_connections,
                   client_shutdown_event, io_fault, progress_lock,
                   nonOrchVars>>

\* the second loop is exhausted (client.py:228, 236)
orch_launch_udp_done ==
    /\ o_pc = "launch_udp"
    /\ o_i >= udp_connections
    /\ o_pc' = "join"
    /\ o_i' = 0
    /\ UNCHANGED <<tcp_connections, udp_connections, threads, w_pc, w_retries,
                   progress_dict, client_shutdown_event, io_fault, lockVars,
                   nonOrchVars>>

\* one iteration of for t in threads: t.join() (client.py:236-237)
orch_join ==
    /\ o_pc = "join"
    /\ o_i < Len(threads)
    /\ thread_join_returns(threads[o_i + 1])
    /\ o_i' = o_i + 1
    /\ UNCHANGED <<o_pc, tcp_connections, udp_connections, threads, w_pc,
                   w_retries, progress_dict, client_shutdown_event, io_fault,
                   lockVars,
                   nonOrchVars>>

\* every thread is joined: "All transfers completed!" and return
\* (client.py:236, 239)
orch_complete ==
    /\ o_pc = "join"
    /\ o_i >= Len(threads)
    /\ o_pc' = "done"
    /\ UNCHANGED <<tcp_connections, udp_connections, o_i, threads, w_pc,
                   w_retries, progress_dict, client_shutdown_event, io_fault,
                   lockVars,
                   nonOrchVars>>

\* KeyboardInterrupt in the launching thread: it leaves perform_speed_test
\* and main() by the exception, and the handler sets client_shutdown_event
\* (client.py:303-307); nothing else in the program sets the event
keyboard_interrupt ==
    /\ o_pc \in {"launch_tcp", "launch_udp", "join"}
    /\ o_pc' = "interrupted"
    /\ client_shutdown_event' = TRUE
    /\ UNCHANGED <<tcp_connections, udp_connections, o_i, threads, w_pc,
                   w_retries, progress_dict, io_fault, lockVars,
                   nonOrchVars>>

\* the while condition of tcp_test and udp_test (client.py:88, 132); the
\* socket.socket() call that follows it is taken to succeed
worker_while(t) ==
    /\ w_pc[t] = "while"
    /\ w_pc' = [w_pc EXCEPT ![t] =
                  IF w_retries[t] > 0 /\ ~client_shutdown_event THEN "attempt"
                  ELSE IF w_retries[t] > 0 THEN "stopped" ELSE "gave_up"]
    /\ UNCHANGED <<o_pc, tcp_connections, udp_connections, o_i, threads,
                   w_retries, progress_dict, client_shutdown_event, io_fault,
                   lockVars,
                   nonOrchVars>>

\* with progress_lock: the transfer thread takes the lock
\* (client.py:109, 178)
worker_lock(t) ==
    /\ w_pc[t] = "attempt"
    /\ progress_dict[t] < MaxUpdates
    /\ progress_lock = <<>>
    /\ progress_lock' = t
    /\ w_pc' = [w_pc EXCEPT ![t] = "locked"]
    /\ UNCHANGED <<o_pc, tcp_connections, udp_connections, o_i, threads,
                   w_retries, progress_dict, last_access,
                   client_shutdown_event, io_fault, nonOrchVars>>

\* progress_dict[t_id] = ...; print_progress(...); the lock is released at
\* the end of the with block (client.py:110-111, 179-181)
worker_update(t) ==
    /\ w_pc[t] = "locked"
    /\ progress_dict' = [progress_dict EXCEPT ![t] = @ + 1]
    /\ last_access' = [by |-> t,
                       locked |-> progress_lock = t,
                       concurrent |-> \E u \in AllThreadIds \ {t} : Running(u)]
    /\ progress_lock' = <<>>
    /\ w_pc' = [w_pc EXCEPT ![t] = "attempt"]
    /\ UNCHANGED <<o_pc, tcp_connections, udp_connections, o_i, threads,
                   w_retries, client_shutdown_event, io_fault, nonOrchVars>>

\* the attempt ends with the report and return (client.py:113-117, 193-206)
worker_success(t) ==
    /\ w_pc[t] = "attempt"
    /\ w_pc' = [w_pc EXCEPT ![t] = "success"]
    /\ UNCHANGED <<o_pc, tcp_connections, udp_connections, o_i, threads,
                   w_retries, progress_dict, client_shutdown_event, io_fault,
                   lockVars,
                   nonOrchVars>>

\* the attempt raises: except Exception, retries -= 1, the backoff, finally
\* close (client.py:119-125, 208-217)
worker_failure(t) ==
    /\ w_pc[t] = "attempt"
    /\ io_fault' = TRUE
    /\ w_retries' = [w_retries EXCEPT ![t] = @ - 1]
    /\ w_pc' = [w_pc EXCEPT ![t] = "while"]
    /\ UNCHANGED <<o_pc, tcp_connections, udp_connections, o_i, threads,
                   progress_dict, client_shutdown_event, lockVars,
                   nonOrchVars>>

(***************************************************************************)
(* SpecOrch: perform_speed_test with any numbers of transfers, each of     *)
(* whose attempts may fail or succeed                                      *)
(***************************************************************************)
InitOrch ==
    /\ file_size = 5000
    /\ progress_dict = <<>>
    /\ client_shutdown_event = FALSE
    /\ io_fault = FALSE
    /\ IdleTcp
    /\ IdleUdpClient
    /\ IdleUdpServer
    /\ IdleDiscover
    /\ IdleLoops
    /\ IdleCodec
    /\ o_pc = "launch_tcp"
    /\ tcp_connections \in 0..MaxConnections
    /\ udp_connections \in 0..MaxConnections
    /\ o_i = 0
    /\ threads = <<>>
    /\ w_pc = [t \in AllThreadIds |-> "unstarted"]
    /\ w_retries = [t \in AllThreadIds |-> RETRIES]
    /\ progress_lock = <<>>
    /\ last_access = NoAccess

NextOrch ==
    \/ orch_launch_tcp
    \/ orch_launch_tcp_done
    \/ orch_launch_udp
    \/ orch_launch_udp_done
    \/ orch_join
    \/ orch_complete
    \/ keyboard_interrupt
    \/ \E t \in AllThreadIds : worker_while(t)
    \/ \E t \in AllThreadIds : worker_lock(t)
    \/ \E t \in AllThreadIds : worker_update(t)
    \/ \E t \in AllThreadIds : worker_success(t)
    \/ \E t \in AllThreadIds : worker_failure(t)

SpecOrch == InitOrch /\ [][NextOrch]_vars

(***************************************************************************)
(* Claims about perform_speed_test                                         *)
(***************************************************************************)
\* the threads perform_speed_test has started
Launched == {threads[i] : i \in DOMAIN threads}

InitFrames == InitDiscover \/ InitUdpServer \/ InitUdpClient

NextFrames == NextDiscover \/ NextUdpServer \/ NextUdpClient

SpecFrames == InitFrames /\ [][NextFrames]_vars

(***************************************************************************)
(* Claims about the three datagram receivers                               *)
(***************************************************************************)
\* the datagram has a cookie and a type byte, and the cookie is not the
\* magic cookie or the type byte is not type
WrongFrame(d, type) ==
    /\ Len(d) >= 4 + 1
    /\ SubSeq(d, 1, 4) # OFFER_MAGIC_COOKIE \/ d[4 + 1] # type

\* udp_discover has just received a datagram with the wrong cookie or type
DiscoverGotWrongFrame ==
    /\ Len(d_history') = Len(d_history) + 1
    /\ WrongFrame(d_history'[Len(d_history')].data, OFFER_MESSAGE_TYPE)

\* udp_test has just received a datagram with the wrong cookie or type
UdpTestGotWrongFrame ==
    /\ rx_count' = rx_count + 1
    /\ WrongFrame(rx_last', PAYLOAD_MESSAGE_TYPE)

\* C11: a datagram with the wrong magic cookie or message type is dropped
\* without side effects: udp_discover goes back to listening with its socket
\* open and nothing returned, handle_client_udp sends no Payload for it, and
\* udp_test stays in its receive loop with received_packets, the set of seen
\* sequence numbers, arrival_times and no_data_count unchanged and no retry
\* spent.
C11_WrongFramesDropped ==
    /\ [](WrongFrame(h_data, REQUEST_MESSAGE_TYPE) =>
            /\ h_sent = <<>>
            /\ sent_segments = 0
            /\ h_pc \in {"start", "done"})
    /\ [][/\ DiscoverGotWrongFrame =>
               /\ d_pc' = "while"
               /\ d_socket' = "bound"
               /\ d_result' = d_result
          /\ UdpTestGotWrongFrame =>
               /\ u_pc' = "recvfrom"
               /\ received_packets' = received_packets
               /\ packets' = packets
               /\ arrival_times' = arrival_times
               /\ no_data_count' = no_data_count
               /\ u_retries' = u_retries]_vars

\* C11 witness: udp_test received a Payload, had a timeout and then received
\* a datagram with the wrong cookie or type
C11_Witness ==
    /\ u_pc = "recvfrom"
    /\ received_packets = 1
    /\ no_data_count = 1
    /\ quiet_run = 0
    /\ WrongFrame(rx_last, PAYLOAD_MESSAGE_TYPE)

(***************************************************************************)
(* The server's three loops (server.py:32-51, 89-117, 172-199), started by *)
(* the main thread (server.py:213-221), and the handler threads they       *)
(* start.  A handler is followed from its start to its end; what happens   *)
(* inside one is in SpecTcpHandler and SpecUdpServer.                      *)
(***************************************************************************)
\* some handler thread has ended in its except clause
SomeHandlerFailed == \E i \in DOMAIN handlers : handlers[i].pc = "failed"

\* threading.Thread(target=handle_client_tcp / handle_client_udp,
\* daemon=True).start() (server.py:108-112, 190-194)
start_handler(kind) ==
    handlers' = Append(handlers, [kind |-> kind, pc |-> "running",
                                  after_failure |-> SomeHandlerFailed])

\* while not server_shutdown_event.is_set() of udp_offer_broadcast, and the
\* finally clause when the loop ends (server.py:47, 50-51)
udp_offer_broadcast_while ==
    /\ b_pc = "while"
    /\ IF ~server_shutdown_event
       THEN /\ b_pc' = "sendto"
            /\ UNCHANGED b_socket
       ELSE /\ b_pc' = "returned"
            /\ b_socket' = "closed"
    /\ UNCHANGED <<b_offers, b_failures, ts_pc, ts_socket, us_pc, us_socket,
                   handlers, late_waits, tcpClientVars, connVars,
                   tcpServerVars, io_fault, udpClientVars, udpServerVars,
                   discVars, orchVars, codecVars>>

\* udp_socket.sendto(offer_message, ...) (server.py:48)
udp_offer_broadcast_sendto ==
    /\ b_pc = "sendto"
    /\ b_offers' = Min(b_offers + 1, MaxBeacons)
    /\ b_pc' = "sleep"
    /\ UNCHANGED <<b_socket, b_failures, ts_pc, ts_socket, us_pc, us_socket,
                   handlers, late_waits, tcpClientVars, connVars,
                   tcpServerVars, io_fault, udpClientVars, udpServerVars,
                   discVars, orchVars, codecVars>>

\* udp_socket.sendto raises: there is no except clause, the finally clause
\* closes the socket and the exception ends the thread (server.py:46-51)
udp_offer_broadcast_sendto_error ==
    /\ b_pc = "sendto"
    /\ io_fault' = TRUE
    /\ b_failures' = b_failures + 1
    /\ b_socket' = "closed"
    /\ b_pc' = "died"
    /\ UNCHANGED <<b_offers, ts_pc, ts_socket, us_pc, us_socket, handlers,
                   late_waits, tcpClientVars, connVars, tcpServerVars,
                   udpClientVars, udpServerVars, discVars, orchVars, codecVars>>

\* time.sleep(1) (server.py:49)
udp_offer_broadcast_sleep ==
    /\ b_pc = "sleep"
    /\ b_pc' = "while"
    /\ late_waits' = [late_waits EXCEPT
                        !.beacon = late(@, server_shutdown_event)]
    /\ UNCHANGED <<b_socket, b_offers, b_failures, ts_pc, ts_socket, us_pc,
                   us_socket, handlers, tcpClientVars, connVars,
                   tcpServerVars, io_fault, udpClientVars, udpServerVars,
                   discVars, orchVars, codecVars>>

udp_offer_broadcast ==
    \/ udp_offer_broadcast_while
    \/ udp_offer_broadcast_sendto
    \/ udp_offer_broadcast_sendto_error
    \/ udp_offer_broadcast_sleep

\* server_socket.bind, listen, settimeout(1) (server.py:97-100); OSError
\* from bind is printed and the socket closed (server.py:114-117)
tcp_server_bind ==
    /\ ts_pc = "bind"
    /\ \/ /\ ts_socket' = "listening"
          /\ ts_pc' = "while"
          /\ UNCHANGED io_fault
       \/ /\ io_fault' = TRUE
          /\ ts_socket' = "closed"
          /\ ts_pc' = "returned"
    /\ UNCHANGED <<b_pc, b_socket, b_offers, b_failures, us_pc, us_socket,
                   handlers, late_waits, tcpClientVars, connVars,
                   tcpServerVars, udpClientVars, udpServerVars, discVars,
                   orchVars, codecVars>>

\* while not server_shutdown_event.is_set() of tcp_server, and the finally
\* clause when the loop ends (server.py:102, 116-117)
tcp_server_while_mutant ==
    /\ ts_pc = "while"
    /\ ts_pc' = "accept"
    /\ UNCHANGED <<b_pc, b_socket, b_offers, b_failures, ts_socket, us_pc,
                   us_socket, handlers, late_waits, tcpClientVars, connVars,
                   tcpServerVars, io_fault, udpClientVars, udpServerVars,
                   discVars, orchVars, codecVars>>
tcp_server_while ==
    /\ ts_pc = "while"
    /\ IF ~server_shutdown_event
       THEN /\ ts_pc' = "accept"
            /\ UNCHANGED ts_socket
       ELSE /\ ts_pc' = "returned"
            /\ ts_socket' = "closed"
    /\ UNCHANGED <<b_pc, b_socket, b_offers, b_failures, us_pc, us_socket,
                   handlers, late_waits, tcpClientVars, connVars,
                   tcpServerVars, io_fault, udpClientVars, udpServerVars,
                   discVars, orchVars, codecVars>>

\* server_socket.accept() returned a connection and a handler thread is
\* started for it (server.py:104, 108-112)
tcp_server_dispatch ==
    /\ ts_pc = "accept"
    /\ Len(handlers) < MaxHandlers
    /\ start_handler("tcp")
    /\ ts_pc' = "while"
    /\ late_waits' = [late_waits EXCEPT !.tcp = late(@, server_shutdown_event)]
    /\ UNCHANGED <<b_pc, b_socket, b_offers, b_failures, ts_socket, us_pc,
                   us_socket, tcpClientVars, connVars, tcpServerVars,
                   io_fault, udpClientVars, udpServerVars, discVars, orchVars, codecVars>>

\* server_socket.accept() timed out after a second: continue
\* (server.py:105-106)
tcp_server_timeout ==
    /\ ts_pc = "accept"
    /\ ts_pc' = "while"
    /\ late_waits' = [late_waits EXCEPT !.tcp = late(@, server_shutdown_event)]
    /\ UNCHANGED <<b_pc, b_socket, b_offers, b_failures, ts_socket, us_pc,
                   us_socket, handlers, tcpClientVars, connVars,
                   tcpServerVars, io_fault, udpClientVars, udpServerVars,
                   discVars, orchVars, codecVars>>

\* server_socket.accept() raised an OSError that is no timeout: the outer
\* except prints it and the finally clause closes the socket
\* (server.py:104, 114-117)
tcp_server_accept_error ==
    /\ ts_pc = "accept"
    /\ io_fault' = TRUE
    /\ ts_socket' = "closed"
    /\ ts_pc' = "returned"
    /\ late_waits' = [late_waits EXCEPT !.tcp = late(@, server_shutdown_event)]
    /\ UNCHANGED <<b_pc, b_socket, b_offers, b_failures, us_pc, us_socket,
                   handlers, tcpClientVars, connVars, tcpServerVars,
                   udpClientVars, udpServerVars, discVars, orchVars, codecVars>>

tcp_server ==
    \/ tcp_server_bind
    \/ tcp_server_while
    \/ tcp_server_dispatch
    \/ tcp_server_timeout
    \/ tcp_server_accept_error

\* udp_socket.bind, settimeout(1) (server.py:180-182); OSError from bind is
\* printed and the socket closed (server.py:196-199)
udp_server_bind ==
    /\ us_pc = "bind"
    /\ \/ /\ us_socket' = "bound"
          /\ us_pc' = "while"
          /\ UNCHANGED io_fault
       \/ /\ io_fault' = TRUE
          /\ us_socket' = "closed"
          /\ us_pc' = "returned"
    /\ UNCHANGED <<b_pc, b_socket, b_offers, b_failures, ts_pc, ts_socket,
                   handlers, late_waits, tcpClientVars, connVars,
                   tcpServerVars, udpClientVars, udpServerVars, discVars,
                   orchVars, codecVars>>

\* while not server_shutdown_event.is_set() of udp_server, and the finally
\* clause when the loop ends (server.py:184, 198-199)
udp_server_while ==
    /\ us_pc = "while"
    /\ IF ~server_shutdown_event
       THEN /\ us_pc' = "recvfrom"
            /\ UNCHANGED us_socket
       ELSE /\ us_pc' = "returned"
            /\ us_socket' = "closed"
    /\ UNCHANGED <<b_pc, b_socket, b_offers, b_failures, ts_pc, ts_socket,
                   handlers, late_waits, tcpClientVars, connVars,
                   tcpServerVars, io_fault, udpClientVars, udpServerVars,
                   discVars, orchVars, codecVars>>

\* udp_socket.recvfrom(2048) returned a datagram and a handler thread is
\* started for it (server.py:186, 190-194)
udp_server_dispatch ==
    /\ us_pc = "recvfrom"
    /\ Len(handlers) < MaxHandlers
    /\ start_handler("udp")
    /\ us_pc' = "while"
    /\ late_waits' = [late_waits EXCEPT !.udp = late(@, server_shutdown_event)]
    /\ UNCHANGED <<b_pc, b_socket, b_offers, b_failures, ts_pc, ts_socket,
                   us_socket, tcpClientVars, connVars, tcpServerVars,
                   io_fault, udpClientVars, udpServerVars, discVars, orchVars, codecVars>>

\* udp_socket.recvfrom timed out after a second: continue (server.py:187-188)
udp_server_timeout ==
    /\ us_pc = "recvfrom"
    /\ us_pc' = "while"
    /\ late_waits' = [late_waits EXCEPT !.udp = late(@, server_shutdown_event)]
    /\ UNCHANGED <<b_pc, b_socket, b_offers, b_failures, ts_pc, ts_socket,
                   us_socket, handlers, tcpClientVars, connVars,
                   tcpServerVars, io_fault, udpClientVars, udpServerVars,
                   discVars, orchVars, codecVars>>

\* udp_socket.recvfrom raised an OSError that is no timeout: the outer
\* except prints it and the finally clause closes the socket
\* (server.py:186, 196-199)
udp_server_recvfrom_error ==
    /\ us_pc = "recvfrom"
    /\ io_fault' = TRUE
    /\ us_socket' = "closed"
    /\ us_pc' = "returned"
    /\ late_waits' = [late_waits EXCEPT !.udp = late(@, server_shutdown_event)]
    /\ UNCHANGED <<b_pc, b_socket, b_offers, b_failures, ts_pc, ts_socket,
                   handlers, tcpClientVars, connVars, tcpServerVars,
                   udpClientVars, udpServerVars, discVars, orchVars, codecVars>>

udp_server ==
    \/ udp_server_bind
    \/ udp_server_while
    \/ udp_server_dispatch
    \/ udp_server_timeout
    \/ udp_server_recvfrom_error

\* the handler's thread state after one of its own steps
handler_end_mutant(i, pc) ==
    [j \in DOMAIN handlers |-> [handlers[j] EXCEPT !.pc = pc]]
handler_end(i, pc) == [handlers EXCEPT ![i].pc = pc]

\* the handler returns: the request was served or refused, finally close
\* (server.py:61-63, 66-68, 81, 85-86, 132-133, 165, 169-170)
handler_finish(i) ==
    /\ handlers[i].pc = "running"
    /\ handlers' = handler_end(i, "finished")
    /\ UNCHANGED <<b_pc, b_socket, b_offers, b_failures, ts_pc, ts_socket,
                   us_pc, us_socket, late_waits, tcpClientVars, connVars,
                   tcpServerVars, io_fault, udpClientVars, udpServerVars,
                   discVars, orchVars, codecVars>>

\* the handler raises: except Exception prints the error, finally close
\* (server.py:83-86, 167-170)
handler_fail(i) ==
    /\ handlers[i].pc = "running"
    /\ io_fault' = TRUE
    /\ handlers' = handler_end(i, "failed")
    /\ UNCHANGED <<b_pc, b_socket, b_offers, b_failures, ts_pc, ts_socket,
                   us_pc, us_socket, late_waits, tcpClientVars, connVars,
                   tcpServerVars, udpClientVars, udpServerVars, discVars,
                   orchVars, codecVars>>

(***************************************************************************)
(* SpecServer: the server's main thread has started the three loops; any   *)
(* connections and datagrams arrive, any handler may fail, and the         *)
(* operator may stop the server                                            *)
(***************************************************************************)
InitServer ==
    /\ file_size = 0
    /\ progress_dict = <<>>
    /\ client_shutdown_event = FALSE
    /\ io_fault = FALSE
    /\ IdleTcp
    /\ IdleUdpClient
    /\ IdleUdpServer
    /\ IdleDiscover
    /\ IdleOrch
    /\ IdleCodec
    /\ b_pc = "while"
    /\ b_socket = "open"
    /\ b_offers = 0
    /\ b_failures = 0
    /\ ts_pc = "bind"
    /\ ts_socket = "unbound"
    /\ us_pc = "bind"
    /\ us_socket = "unbound"
    /\ handlers = <<>>
    /\ late_waits = [beacon |-> 0, tcp |-> 0, udp |-> 0]

NextServer ==
    \/ udp_offer_broadcast
    \/ tcp_server
    \/ udp_server
    \/ \E i \in DOMAIN handlers : handler_finish(i)
    \/ \E i \in DOMAIN handlers : handler_fail(i)
    \/ server_shutdown

SpecServer == InitServer /\ [][NextServer]_vars

(***************************************************************************)
(* SpecStop: udp_discover on the client and the three loops of the server, *)
(* with their stop events; every thread that can take a step eventually    *)
(* takes one (a wait ends with a datagram, a connection, an error or its   *)
(* timeout)                                                                *)
(***************************************************************************)
\* a step of the thread that runs udp_discover
udp_discover ==
    \/ udp_discover_while
    \/ udp_discover_recvfrom
    \/ udp_discover_timeout
    \/ udp_discover_interrupt

InitStop == InitDiscover \/ InitServer

NextStop == NextDiscover \/ NextServer

SpecStop ==
    /\ InitStop
    /\ [][NextStop]_vars
    /\ WF_vars(udp_discover)
    /\ WF_vars(udp_offer_broadcast)
    /\ WF_vars(tcp_server)
    /\ WF_vars(udp_server)

(***************************************************************************)
(* Claims about the stop events                                            *)
(***************************************************************************)
\* C12: once the stop event is set, udp_discover, udp_offer_broadcast,
\* tcp_server and udp_server each eventually leave their loop and close
\* their socket, and none of them ends more than one wait (receive, accept
\* or sleep) after the event was set, whatever arrives.
C12_StopEndsLoops ==
    /\ [](/\ d_late_waits <= 1
          /\ late_waits.beacon <= 1
          /\ late_waits.tcp <= 1
          /\ late_waits.udp <= 1)
    /\ (client_shutdown_event /\ d_pc # "absent")
          ~> (d_pc = "returned" /\ d_socket = "closed")
    /\ (server_shutdown_event /\ b_pc # "absent")
          ~> (b_pc \in {"returned", "died"} /\ b_socket = "closed")
    /\ (server_shutdown_event /\ ts_pc # "absent")
          ~> (ts_pc = "returned" /\ ts_socket = "closed")
    /\ (server_shutdown_event /\ us_pc # "absent")
          ~> (us_pc = "returned" /\ us_socket = "closed")

\* C12 witness: the server was stopped while handlers were running; each of
\* its loops ended one more wait and then returned with its socket closed
C12_Witness ==
    /\ server_shutdown_event
    /\ handlers # <<>>
    /\ late_waits = [beacon |-> 1, tcp |-> 1, udp |-> 1]
    /\ b_pc = "returned" /\ b_socket = "closed"
    /\ ts_pc = "returned" /\ ts_socket = "closed"
    /\ us_pc = "returned" /\ us_socket = "closed"
    /\ ~io_fault

(***************************************************************************)
(* SpecUdpLoss: one udp_test thread asking for 10240 bytes, the example    *)
(* size of main()'s prompt, against a network that loses, repeats and      *)
(* reorders the server's Payload datagrams                                 *)
(***************************************************************************)
\* "Enter file size in bytes (e.g. 10240)" (client.py:252)
ExampleFileSize == 10240

\* the Payload datagrams handle_client_udp sends for ExampleFileSize, up to
\* sequence number MaxLossSeq, as they arrive
LossArrivals ==
    {udp_test_arrival(udp_payload(udp_total_segments(ExampleFileSize), q)) :
         q \in 0..MaxLossSeq}

\* the receive loop of SpecUdpLoss
udp_test_recvfrom_loss == udp_test_receive(LossArrivals, MaxLossDatagrams)

InitUdpLoss ==
    /\ file_size = ExampleFileSize
    /\ progress_dict = [t \in {U1} |-> 0]
    /\ client_shutdown_event = FALSE
    /\ io_fault = FALSE
    /\ IdleTcp
    /\ IdleUdpServer
    /\ IdleDiscover
    /\ IdleOrch
    /\ IdleCodec
    /\ IdleLoops
    /\ u_pc = "while"
    /\ u_retries = RETRIES
    /\ request_msg = <<>>
    /\ start_time = 0
    /\ packets = {}
    /\ arrival_times = <<>>
    /\ received_packets = 0
    /\ last_update_time = 0
    /\ no_data_count = 0
    /\ lost_packets = 0
    /\ jitter = <<0, 1>>
    /\ now = 0
    /\ u_attempts = 0
    /\ rx_count = 0
    /\ rx_valid = 0
    /\ rx_last = <<>>
    /\ quiet_run = 0
    /\ first_total = -1
    /\ valid_seqs = {}

NextUdpLoss ==
    \/ udp_test_while
    \/ udp_test_sendto
    \/ udp_test_sendto_error
    \/ udp_test_recvfrom_loss
    \/ udp_test_timeout
    \/ udp_test_recvfrom_error
    \/ client_shutdown

SpecUdpLoss == InitUdpLoss /\ [][NextUdpLoss]_vars

(***************************************************************************)
(* Claims about the statistics of udp_test                                 *)
(***************************************************************************)
\* C13: the loss udp_test reports is file_size // 1024 minus the number of
\* distinct sequence numbers received in the attempt; with file_size = 10240
\* and the sequence numbers {0,1,2,4,5,7} received, in any order and with
\* any duplicates, received = 6 and lost = 4.
C13_LossIsExpectedMinusDistinct ==
    u_pc = "success" =>
        /\ received_packets = Cardinality(valid_seqs)
        /\ lost_packets = (file_size \div 1024) - Cardinality(valid_seqs)
        /\ (file_size = 10240 /\ valid_seqs = {0, 1, 2, 4, 5, 7}) =>
               (received_packets = 6 /\ lost_packets = 4)

\* C13 witness: exactly the sequence numbers {0,1,2,4,5,7} arrived, one of
\* them twice, and the attempt has reported
C13_Witness ==
    /\ u_pc = "success"
    /\ file_size = 10240
    /\ valid_seqs = {0, 1, 2, 4, 5, 7}
    /\ rx_valid = 7

(***************************************************************************)
(* SpecUdpHonest: one udp_test thread whose socket only receives the       *)
(* Payload datagrams handle_client_udp sends for its Request; the network  *)
(* may lose, repeat, reorder and delay them                                *)
(***************************************************************************)
\* file sizes udp_test is run with: 0 and 3 segments
HonestFileSizes == {1000, 3072}

\* for each file size, the Payload datagrams of handle_client_udp's segment
\* loop (server.py:136-154) as they arrive
HonestArrivals ==
    [f \in HonestFileSizes |->
        {udp_test_arrival(udp_payload(udp_total_segments(f), q)) :
             q \in 0..(udp_total_segments(f) - 1)}]

\* the receive loop of SpecUdpHonest
udp_test_recvfrom_honest ==
    udp_test_receive(HonestArrivals[file_size], MaxHonestDatagrams)

\* time passes in SpecUdpHonest
tick_honest == tick_to(MaxHonestClock)

InitUdpHonest ==
    /\ file_size \in HonestFileSizes
    /\ progress_dict = [t \in {U1} |-> 0]
    /\ client_shutdown_event = FALSE
    /\ io_fault = FALSE
    /\ IdleTcp
    /\ IdleUdpServer
    /\ IdleDiscover
    /\ IdleOrch
    /\ IdleCodec
    /\ IdleLoops
    /\ u_pc = "while"
    /\ u_retries = RETRIES
    /\ request_msg = <<>>
    /\ start_time = 0
    /\ packets = {}
    /\ arrival_times = <<>>
    /\ received_packets = 0
    /\ last_update_time = 0
    /\ no_data_count = 0
    /\ lost_packets = 0
    /\ jitter = <<0, 1>>
    /\ now = 0
    /\ u_attempts = 0
    /\ rx_count = 0
    /\ rx_valid = 0
    /\ rx_last = <<>>
    /\ quiet_run = 0
    /\ first_total = -1
    /\ valid_seqs = {}

NextUdpHonest ==
    \/ udp_test_while
    \/ udp_test_sendto
    \/ udp_test_sendto_error
    \/ udp_test_recvfrom_honest
    \/ udp_test_timeout
    \/ udp_test_recvfrom_error
    \/ tick_honest
    \/ client_shutdown

SpecUdpHonest == InitUdpHonest /\ [][NextUdpHonest]_vars

\* C14: the jitter udp_test reports is computed from the arrival times of
\* the unique segments in receipt order, is 0 with fewer than two arrivals,
\* and is 1.0 for the arrival times [t0, t0+1, t0+3].
C14_JitterOfExample ==
    u_pc = "success" =>
        /\ Len(arrival_times) < 2 => jitter[1] = 0
        /\ (/\ Len(arrival_times) = 3
            /\ arrival_times[2] = arrival_times[1] + 1
            /\ arrival_times[3] = arrival_times[1] + 3) =>
               jitter[1] = 1 * jitter[2]

\* the attempt has left its receive loop because received_packets reached
\* the total of the datagram just received, not by the quiet period
LeftByCompletion == u_pc = "success" /\ quiet_run = 0

\* C16: when udp_test only receives Payload datagrams of handle_client_udp
\* for its Request, the attempt leaves its receive loop by completion
\* exactly when the number of distinct sequence numbers received reaches the
\* total_segments of the first valid payload: never with fewer, and it is
\* never back at recvfrom with that many.
C16_CompletesAtDeclaredTotal ==
    /\ LeftByCompletion =>
           (first_total # -1 /\ Cardinality(valid_seqs) = first_total)
    /\ (u_pc = "recvfrom" /\ first_total # -1) =>
           Cardinality(valid_seqs) < first_total

\* C16 witness: three segments, one of them received twice, a timeout in
\* between, and the loop left by completion
C16_Witness ==
    /\ LeftByCompletion
    /\ file_size = 3072
    /\ rx_valid = 4
    /\ Cardinality(valid_seqs) = 3
    /\ no_data_count = 0
    /\ arrival_times = <<0, 1, 3>>

(***************************************************************************)
(* SpecCodec: one message is packed by the side that sends it and unpacked *)
(* by the side that receives it                                            *)
(***************************************************************************)
\* values of the 16-bit fields and of the 64-bit fields
PortValues == {0, 1, 255, 256, 20001, 65535}
QuadValues == {0, 1, 255, 256, 65536, 2147483647}

\* the messages: an Offer with udp_port and tcp_port, a Request with
\* file_size and thread_num, a Payload with total_segments and segment
Messages ==
    [kind : {"offer"}, a : PortValues, b : PortValues]
      \cup [kind : {"request", "payload"}, a : QuadValues, b : QuadValues]

\* struct.pack on the sending side: udp_offer_broadcast (server.py:40-44),
\* udp_test (client.py:141-145), handle_client_udp with its padding
\* (server.py:147-152)
codec_pack ==
    /\ k_pc = "pack"
    /\ k_wire' =
         CASE k_msg.kind = "offer" ->
                struct_pack_IBHH(OFFER_MAGIC_COOKIE, OFFER_MESSAGE_TYPE,
                                 k_msg.a, k_msg.b)
           [] k_msg.kind = "request" ->
                struct_pack_IBQQ(OFFER_MAGIC_COOKIE, REQUEST_MESSAGE_TYPE,
                                 k_msg.a, k_msg.b)
           [] k_msg.kind = "payload" -> udp_payload(k_msg.a, k_msg.b)
    /\ k_pc' = "unpack"
    /\ UNCHANGED <<k_msg, k_out, tcpClientVars, connVars, tcpServerVars,
                   io_fault, udpClientVars, udpServerVars, discVars, orchVars,
                   loopVars>>

\* struct.unpack on the receiving side: udp_discover after recvfrom(1024)
\* (client.py:47, 58), handle_client_udp after udp_server's recvfrom(2048)
\* (server.py:131, 186), udp_test on data[:header_size] after recvfrom(2048)
\* (client.py:159-166); struct.error for a wrong length leaves nothing
codec_unpack ==
    /\ k_pc = "unpack"
    /\ k_out' =
         CASE k_msg.kind = "offer" ->
                LET data == SubSeq(k_wire, 1, Min(DISCOVER_RECV_SIZE, Len(k_wire)))
                    m == struct_unpack_IBHH(data)
                IN IF Len(data) # offer_size THEN <<>>
                   ELSE [cookie |-> m.cookie, msg_type |-> m.msg_type,
                         a |-> m.h1, b |-> m.h2]
           [] k_msg.kind = "request" ->
                LET data == SubSeq(k_wire, 1, Min(UDP_RECV_SIZE, Len(k_wire)))
                    m == struct_unpack_IBQQ(data)
                IN IF Len(data) # header_size THEN <<>>
                   ELSE [cookie |-> m.cookie, msg_type |-> m.msg_type,
                         a |-> m.q1, b |-> m.q2]
           [] k_msg.kind = "payload" ->
                LET data == SubSeq(k_wire, 1, Min(UDP_RECV_SIZE, Len(k_wire)))
                    m == struct_unpack_IBQQ(SubSeq(data, 1, header_size))
                IN IF Len(data) < header_size THEN <<>>
                   ELSE [cookie |-> m.cookie, msg_type |-> m.msg_type,
                         a |-> m.q1, b |-> m.q2]
    /\ k_pc' = "done"
    /\ UNCHANGED <<k_msg, k_wire, tcpClientVars, connVars, tcpServerVars,
                   io_fault, udpClientVars, udpServerVars, discVars, orchVars,
                   loopVars>>

InitCodec ==
    /\ file_size = 0
    /\ progress_dict = <<>>
    /\ client_shutdown_event = FALSE
    /\ io_fault = FALSE
    /\ IdleTcp
    /\ IdleUdpClient
    /\ IdleUdpServer
    /\ IdleDiscover
    /\ IdleOrch
    /\ IdleLoops
    /\ k_pc = "pack"
    /\ k_msg \in Messages
    /\ k_wire = <<>>
    /\ k_out = <<>>

NextCodec == codec_pack \/ codec_unpack

SpecCodec == InitCodec /\ [][NextCodec]_vars

(***************************************************************************)
(* Claims about the message formats                                        *)
(***************************************************************************)
\* the type byte and the length on the wire of each kind of message
TypeOf(kind) ==
    CASE kind = "offer" -> 2 [] kind = "request" -> 3 [] kind = "payload" -> 4
WireLength(kind) ==
    CASE kind = "offer" -> 9 [] kind = "request" -> 21 [] kind = "payload" -> 1024

\* the big-endian value of the bytes from..to of the wire
WireField(from, to) == be_int(SubSeq(k_wire, from, to))

\* C15: unpacking what was packed gives back the same field values, for an
\* Offer from the server to udp_discover, a Request from udp_test to
\* handle_client_udp and a Payload, padded to 1024 bytes, from
\* handle_client_udp to udp_test; an Offer is 9 bytes and the header of a
\* Request or Payload 21 bytes, cookie first, then the type byte, then the
\* two fields most significant byte first.
C15_RoundTrip ==
    /\ k_pc \in {"unpack", "done"} =>
         /\ Len(k_wire) = WireLength(k_msg.kind)
         /\ SubSeq(k_wire, 1, 4) = <<171, 205, 220, 186>>
         /\ k_wire[5] = TypeOf(k_msg.kind)
         /\ IF k_msg.kind = "offer"
            THEN WireField(6, 7) = k_msg.a /\ WireField(8, 9) = k_msg.b
            ELSE WireField(6, 13) = k_msg.a /\ WireField(14, 21) = k_msg.b
    /\ k_pc = "done" =>
         k_out = [cookie |-> <<171, 205, 220, 186>>,
                  msg_type |-> TypeOf(k_msg.kind),
                  a |-> k_msg.a, b |-> k_msg.b]

\* C15 witness: a Payload whose two fields differ and need several bytes has
\* been unpacked
C15_Witness ==
    /\ k_pc = "done"
    /\ k_msg = [kind |-> "payload", a |-> 2147483647, b |-> 65536]
    /\ k_out.a = 2147483647
    /\ k_out.b = 65536

(***************************************************************************)
(* Claims about the quiet period of udp_test                               *)
(***************************************************************************)
\* the attempt has left its receive loop on a receive timeout
LeftByQuietPeriod == u_pc = "success" /\ quiet_run >= 1

\* C17: udp_test leaves its receive loop by the quiet-period rule only when
\* its last 6 receive calls all timed out with no datagram received between
\* them; any datagram received, new, duplicate or invalid, ends the run of
\* consecutive timeouts.
C17_QuietPeriodIsConsecutive ==
    LeftByQuietPeriod => quiet_run >= 6

(***************************************************************************)
(* Claims about progress_dict                                              *)
(***************************************************************************)
\* C18: every access to progress_dict, by the launching thread as well as
\* by the transfer threads, is made by a thread that holds progress_lock: no
\* thread accesses it without the lock while another transfer thread is
\* running.
C18_ProgressUnderLock ==
    last_access.concurrent => last_access.locked

(***************************************************************************)
(* Claims about the server's loops and handlers                            *)
(***************************************************************************)
\* C19: udp_offer_broadcast keeps broadcasting until the stop event is set:
\* after a sendto has failed it is still running and goes on to send the
\* Offer again.
C19_BeaconSurvivesSendFailure ==
    (b_failures > 0 /\ ~server_shutdown_event) =>
        b_pc \in {"while", "sendto", "sleep"}

(***************************************************************************)
(* SpecIsolation: the transfer threads of perform_speed_test on the        *)
(* client, and the loops and handler threads of the server, with failures  *)
(* in any of them                                                          *)
(***************************************************************************)
InitIsolation == InitOrch \/ InitServer

NextIsolation == NextOrch \/ NextServer

SpecIsolation == InitIsolation /\ [][NextIsolation]_vars

\* handler i has just failed
HandlerFailed(i) == handlers[i].pc = "running" /\ handlers'[i].pc = "failed"

\* an attempt of transfer thread t has just failed, or t has just returned
\* with its retries exhausted
TransferFailed(t) ==
    \/ w_pc[t] = "attempt" /\ w_pc'[t] = "while"
    \/ w_pc[t] = "while" /\ w_pc'[t] = "gave_up"

\* C20: a failure in one transfer or handler stays local to it: the step in
\* which a handler fails changes no other handler and none of the server's
\* loops or their sockets, and the step in which a transfer's attempt fails
\* or its retries run out changes no other transfer thread, no other
\* thread's progress entry and not the launching thread; the loops go on to
\* start new handlers.
C20_FailuresStayLocal ==
    [][/\ \A i \in DOMAIN handlers :
            HandlerFailed(i) =>
              /\ Len(handlers') = Len(handlers)
              /\ \A j \in DOMAIN handlers \ {i} : handlers'[j] = handlers[j]
              /\ <<b_pc, b_socket, ts_pc, ts_socket, us_pc, us_socket>>'
                   = <<b_pc, b_socket, ts_pc, ts_socket, us_pc, us_socket>>
       /\ \A t \in DOMAIN w_pc :
            TransferFailed(t) =>
              /\ \A u \in DOMAIN w_pc \ {t} :
                   w_pc'[u] = w_pc[u] /\ w_retries'[u] = w_retries[u]
              /\ progress_dict' = progress_dict
              /\ <<o_pc, o_i, threads>>' = <<o_pc, o_i, threads>>]_vars

\* C20 witness: the first handler failed; afterwards the other loop started
\* a second handler, which has finished, and both loops are still running
C20_Witness ==
    /\ Len(handlers) = 2
    /\ handlers[1].pc = "failed"
    /\ handlers[2].after_failure
    /\ handlers[2].pc = "finished"
    /\ handlers[1].kind # handlers[2].kind
    /\ ts_pc \in {"while", "accept"}
    /\ us_pc \in {"while", "recvfrom"}
    /\ ~server_shutdown_event

(***************************************************************************)
(* SpecUdpLive: SpecUdpClient with a udp_test thread that keeps running.   *)
(* No call of udp_test blocks for ever: sendto returns at once, recvfrom   *)
(* returns within its one-second timeout (client.py:137) and the backoff   *)
(* sleep after one second (client.py:210-211).  Whether a datagram arrives *)
(* is up to the network, and at most MaxDatagrams arrive in an attempt.    *)
(***************************************************************************)
\* the steps of udp_test that wait for nothing from the network: the loop
\* head, the send, and recvfrom returning without a datagram, by its
\* timeout or with an error (client.py:132-148, 187-191, 208-217)
udp_test_unblocked ==
    \/ udp_test_while
    \/ udp_test_sendto
    \/ udp_test_sendto_error
    \/ udp_test_timeout
    \/ udp_test_recvfrom_error

SpecUdpLive ==
    InitUdpClient /\ [][NextUdpClient]_vars /\ WF_vars(udp_test_unblocked)

\* udp_test has returned: after its report, with the stop event set, or
\* with its retries used up
UdpTestReturned == u_pc \in {"success", "stopped", "gave_up"}

\* a step out of the receive loop into the except clause of the attempt
LeftBySocketError ==
    u_pc = "recvfrom" /\ u_pc' = "while" /\ u_retries' = u_retries - 1

\* C21: every udp_test call terminates when finitely many datagrams arrive:
\* each attempt eventually leaves its receive loop, and leaves it by
\* completion, by the quiet period or by a socket error; a step in which a
\* receive timed out leaves the retries as they were; there are never more
\* than 3 attempts; and udp_test eventually returns.
C21_UdpTestTerminates ==
    /\ (u_pc = "recvfrom") ~> (u_pc # "recvfrom")
    /\ [][(u_pc = "recvfrom" /\ u_pc' # "recvfrom") =>
            \/ LeftByCompletion'
            \/ LeftByQuietPeriod' /\ no_data_count' > max_no_data
            \/ LeftBySocketError]_vars
    /\ [][quiet_run' = quiet_run + 1 => u_retries' = u_retries]_vars
    /\ [](u_attempts <= RETRIES)
    /\ <>UdpTestReturned

\* the third attempt received a datagram and then left its receive loop by
\* the quiet period, and udp_test returned
C21_Witness ==
    /\ u_pc = "success"
    /\ u_attempts = RETRIES
    /\ u_retries = 1
    /\ rx_count > 0
    /\ no_data_count > max_no_data

=============================================================================
